---- MODULE Spec2Model ----
(***************************************************************************)
(* Controller side of the multi-server layer: the node registry            *)
(* (ServerManagementService over the servers and inbounds tables), the     *)
(* executor factory (GetConnector) and the health monitor                  *)
(* (ServerHealthJob.Run / checkServer) with its per-cycle worker pool and  *)
(* its in-memory failure counters. Beside it, each under a specification  *)
(* of its own: the agent's HTTP server (router, TLS setup, authentication  *)
(* and rate-limit middleware), and the LocalConnector's inbound and client *)
(* operations over the shared inbounds table, and the RemoteConnector     *)
(* (construction of its HTTP client from the auth data, and doRequest),    *)
(* and the database's multi-server migration.                              *)
(***************************************************************************)
EXTENDS Integers, FiniteSets, Sequences, TLC

\* ------------------------------------------------------------------ bounds

\* Node ids are 1..MaxId; id 1 is the local node.
MaxId == 3
\* Monitor cycles (invocations of Run) the scheduler triggers; any of them
\* may overlap.
MaxCycles == 2
\* Administrative requests (add, update, delete, inbound changes) served
\* while the monitor runs.
MaxAdminOps == 2
\* Administrative requests served when the registry is exercised alone.
MaxRegistryOps == 5
\* Inbound records one node may own.
MaxInbounds == 1
\* HealthConfig.MaxConcurrency, the worker-pool size K of this run.
MaxConcurrency == 1

\* Records a table may hold before the migration first runs.
MaxLegacyRows == 1
\* Runs of the migration (starts of the panel).
MaxRuns == 3
\* Inbound ids are 1..MaxInboundId.
MaxInboundId == 2
\* Callers (client IPs) of the agent's HTTP server.
MaxCallers == 2
\* The agent's clock runs from 0 to MaxTicks.
MaxTicks == 15
\* Resolution of the agent's clock.
TicksPerMinute == 1
\* AgentConfig.RateLimit of this run, in requests per minute.
RateLimit == 1

Ids == 1..MaxId
Cycles == 1..MaxCycles
Callers == 1..MaxCallers
InboundIds == 1..MaxInboundId

\* ------------------------------------------------------- values and inputs

\* AuthType values the AddServer controller accepts.
AuthKinds == {"mtls", "jwt", "local"}
\* AuthType values a request body may carry ("" is an omitted field).
InAuth == {"local", "mtls", ""}
\* Status values a request body may carry ("" is an omitted field).
InStatus == {"", "online"}
\* AuthData values a request body may carry: "" is an omitted or empty field,
\* "pem" stands for complete material of the node's auth kind.
InData == {"", "pem"}
\* The four documented status values of model.Server.Status.
Statuses == {"pending", "online", "offline", "error"}

\* The status LocalConnector.GetHealth reports: online when the proxy engine
\* runs, offline when it does not; it never returns an error.
LocalHealth == {"online", "offline"}

VARIABLES
    servers,    \* the servers table: a function from the ids of its rows
    inbounds,   \* per node id, the number of inbound rows with that server_id
    failures,   \* ServerHealthJob.failures; 0 stands for an absent key
    now,        \* the clock (time.Now().Unix()), in monitor periods
    cycle,      \* per invocation of Run: its position and its summary counters
    task,       \* per invocation of Run and node: the health-check goroutine
    delPending, \* DeleteServer calls between their inbound count and their delete
    budget,     \* administrative requests still to be served
    reply,      \* what the most recent administrative request returned
    streak,     \* history: failed checks of a node since its last successful one
    refused,    \* history: nodes whose deletion was refused for owned inbounds
    agentCfg,   \* the agent: its AgentConfig and the outcome of its setup
    agentNow,   \* the agent: its clock (time.Now()), in ticks
    buckets,    \* the agent: RateLimiter.buckets, per caller key
    resp,       \* the agent: the most recent request and what answered it
    rejectedAt, \* history: when the request in resp was rate-limited, else -1
    records,    \* the inbounds table: a function from the ids of its rows
    connOut,    \* the most recent LocalConnector operation and what it returned
    rc,         \* the most recent NewRemoteConnector call and what it returned
    rcOut,      \* the most recent doRequest: what the transport did, what it returned
    sent,       \* the most recent contract operation: its request, the route it met
    mdb,        \* the database the migration works on
    mdb0,       \* history: the database before the first run of the migration
    mrun,       \* the run of runMultiserverMigration: its position, the runs so far
    env,        \* the environment of the panel's process: the monitor's variables
    healthCfg,  \* the HealthConfig of the ServerHealthJob, once it is constructed
    lim,        \* a rate limiter on a finer clock: its buckets, the recent admissions
    logEnv,     \* AGENT_LOG_FILE of the agent's process
    logFs,      \* the file at the log path: whether it is there, how it can be read
    logResp,    \* the most recent answer of the agent's log endpoint
    agg,        \* the aggregatedStatus request in progress: its counters, its goroutines
    view,       \* the most recent answer of a read-only request on the registry
    live,       \* the content of the live database file
    backup,     \* the content of the file beside it with the suffix .backup
    restore     \* per call of RestoreDatabase: its data, its position, its error

\* The controller (registry, factory, monitor) and the agent's HTTP server.
controllerVars == <<servers, inbounds, failures, now, cycle, task, delPending,
                    budget, reply, streak, refused>>
agentVars == <<agentCfg, agentNow, buckets, resp, rejectedAt>>
storeVars == <<records, connOut>>
remoteVars == <<rc, rcOut, sent>>
migrationVars == <<mdb, mdb0, mrun>>
configVars == <<env, healthCfg>>
limiterVars == <<lim>>
logVars == <<logEnv, logFs, logResp>>
viewVars == <<agg, view>>
restoreVars == <<live, backup, restore>>

vars == <<controllerVars, agentVars, storeVars, remoteVars, migrationVars,
          configVars, limiterVars, logVars, viewVars, restoreVars>>

\* What a step of the controller, of the agent and of a LocalConnector
\* leaves alone.
externalVars == <<agentVars, storeVars, remoteVars, migrationVars, configVars, limiterVars, logVars, viewVars, restoreVars>>
besideAgent == <<controllerVars, storeVars, remoteVars, migrationVars, configVars, limiterVars, logVars, viewVars, restoreVars>>
besideStore == <<controllerVars, agentVars, remoteVars, migrationVars, configVars, limiterVars, logVars, viewVars, restoreVars>>
besideRemote == <<controllerVars, agentVars, storeVars, migrationVars, configVars, limiterVars, logVars, viewVars, restoreVars>>
besideMigration == <<controllerVars, agentVars, storeVars, remoteVars, configVars, limiterVars, logVars, viewVars, restoreVars>>
besideLimiter == <<controllerVars, agentVars, storeVars, remoteVars, migrationVars,
                   configVars, logVars, viewVars, restoreVars>>
besideLogs == <<controllerVars, agentVars, storeVars, remoteVars, migrationVars,
                configVars, limiterVars, viewVars, restoreVars>>
besideConfig == <<controllerVars, agentVars, storeVars, remoteVars, migrationVars, limiterVars, logVars, viewVars, restoreVars>>

besideViews == <<controllerVars, agentVars, storeVars, remoteVars, migrationVars,
                 configVars, limiterVars, logVars, restoreVars>>
besideRestore == <<controllerVars, agentVars, storeVars, remoteVars, migrationVars,
                   configVars, limiterVars, logVars, viewVars>>

\* What the monitor owns, and what only administrative requests change.
monitorVars == <<failures, now, cycle, task, streak>>
requestVars == <<inbounds, delPending, budget, reply, refused>>

\* ---------------------------------------------------------------- registry

\* The row runMultiserverMigration seeds for the local node.
DefaultServer ==
    [authType |-> "local", authData |-> "", status |-> "online", enabled |-> TRUE,
     lastSeen |-> 0, lastError |-> "", version |-> ""]

\* A row as bound from a request body: the fields the body does not carry
\* keep their zero values.
BodyRow(authType, enabled, status, authData) ==
    [authType |-> authType, authData |-> authData, status |-> status,
     enabled |-> enabled,
     lastSeen |-> 0, lastError |-> "", version |-> ""]

GetEnabledServers(db) == {id \in DOMAIN db : db[id].enabled}

\* ServerManagementService.AddServer: the default status, then db.Create,
\* which stores the column default (gorm:"default:true") for a false
\* Enabled field.
AddServerRow(db, id, row) ==
    [i \in DOMAIN db \cup {id} |->
        IF i = id
        THEN [row EXCEPT !.status = IF row.status = "" THEN "pending" ELSE row.status,
                         !.enabled = TRUE]
        ELSE db[i]]

\* ServerManagementService.UpdateServer: db.Save writes every field of the
\* row as given, zero values included; when no row has the id it inserts
\* the row as db.Create does.
SaveServerRow(db, id, row) ==
    IF id \in DOMAIN db
    THEN [db EXCEPT ![id] = row]
    ELSE AddServerRow(db, id, row)

\* db.Delete(&model.Server{}, id)
DeleteServerRow(db, id) == [i \in DOMAIN db \ {id} |-> db[i]]

\* An UpdateServerStatus that saves a whole row, as UpdateServer does.
UpdateServerStatus_Save(db, id, status, lastError, t) ==
    IF id \in DOMAIN db
    THEN [db EXCEPT ![id] = [BodyRow("", FALSE, status, "") EXCEPT
                                !.lastSeen = t, !.lastError = lastError]]
    ELSE db

\* ServerManagementService.UpdateServerStatus: an UPDATE ... WHERE id = ?,
\* which changes no row when the node is gone.
UpdateServerStatus(db, id, status, lastError, t) ==
    IF id \in DOMAIN db
    THEN [db EXCEPT ![id].status = status, ![id].lastSeen = t,
                    ![id].lastError = lastError]
    ELSE db

\* ServerManagementService.UpdateServerMetadata
UpdateServerMetadata(db, id, version) ==
    IF id \in DOMAIN db THEN [db EXCEPT ![id].version = version] ELSE db

\* ServerManagementService.GetConnector: "local" for a LocalConnector, "error"
\* when the row is missing or its auth type is not local.
GetConnector(db, id) ==
    IF id \notin DOMAIN db THEN "error"
    ELSE IF db[id].authType = "local" THEN "local"
    ELSE "error"

\* ---------------------------------------------------------- failure counters

\* A recordFailure that stores 1 instead of incrementing.
recordFailure_Set(f, id) == [f EXCEPT ![id] = 1]

\* ServerHealthJob.recordFailure: j.failures[serverId]++ under failuresMu.
recordFailure(f, id) == [f EXCEPT ![id] = f[id] + 1]

\* ServerHealthJob.resetFailure: delete(j.failures, serverId) under failuresMu.
resetFailure(f, id) == [f EXCEPT ![id] = 0]

\* ------------------------------------------------------- the agent: values

\* NewRateLimiter: the cleanup ticker's period, and the idle time after which
\* cleanup removes a bucket, in minutes.
CleanupEveryMinutes == 5
BucketIdleMinutes == 10

\* AgentConfig as Validate accepts it: the auth type, and for mtls what the
\* CA file holds (a certificate, or a certificate and its key) and whether
\* the build's tls.LoadX509KeyPair fills in Certificate.Leaf.
AgentConfigs ==
    {[authType |-> "mtls", caFile |-> "cert", leaf |-> TRUE],
     [authType |-> "mtls", caFile |-> "cert+key", leaf |-> TRUE],
     [authType |-> "mtls", caFile |-> "cert+key", leaf |-> FALSE],
     [authType |-> "jwt", caFile |-> "cert", leaf |-> TRUE]}

\* AgentConfig.JWTSecret (Validate: not empty).
JWTSecret == "secret"

\* Routes a request may name: the health probe, the root endpoint, one of
\* the protected routes, and a path no route matches.
RouteHealth == "GET /api/v1/health"
RouteRoot == "GET /"
ProtectedRoutes == {"POST /api/v1/inbounds"}
Routes == {RouteHealth, RouteRoot, "GET /api/v1/nope"} \cup ProtectedRoutes

\* The certificate a client offers in the TLS handshake.
ClientCerts == {"none", "otherCA", "configuredCA"}

\* Authorization headers, as the prefix JWTAuth looks at and the rest.
AuthHeaders ==
    {<<>>, <<"Basic ", JWTSecret>>, <<"Bearer ", "wrong">>,
     <<"Bearer ", JWTSecret>>}

\* The credentials tried against a server of the given auth type.
CredsOf(authType) ==
    IF authType = "mtls"
    THEN {[cert |-> c, header |-> <<>>] : c \in ClientCerts}
    ELSE {[cert |-> "none", header |-> h] : h \in AuthHeaders}

NoBucket == [exists |-> FALSE, tokens |-> 0, lastRefill |-> 0]
\* No request yet. In resp, waited is history: when the request repeats the
\* one before it and that one was rate-limited, the time since then; else -1.
NoResp == [ip |-> 0, route |-> "", cert |-> "", header |-> <<>>, waited |-> -1,
           code |-> 0, error |-> "", handler |-> ""]

\* The agent as SetupRouter leaves it, under a given configuration.
AgentInit(cfg) ==
    /\ agentCfg = cfg
    /\ agentNow = 0
    /\ buckets = [k \in Callers |-> NoBucket]
    /\ resp = NoResp
    /\ rejectedAt = -1

\* ------------------------------------------------ the inbounds table: values

\* Client emails, and the settings an inbound may be given.
Emails == {"alice"}
InSettings == {"s0", "s1"}

\* An inbound row: the owning node, its settings, the clients in them, and
\* whether its clients have traffic counted.
InboundRow(serverId, settings, clients, used) ==
    [serverId |-> serverId, settings |-> settings, clients |-> clients,
     used |-> used]

NoConnOut == [op |-> "", via |-> 0, id |-> 0, returned |-> {}, err |-> FALSE]

StoreInit ==
    /\ records = <<>>
    /\ connOut = NoConnOut

\* ------------------------------------------------ RemoteConnector: values

\* A PEM block: its type line and what it encodes. A PEM text is the
\* sequence of its blocks.
Block(type, body) == [type |-> type, body |-> body]

CertBlock == Block("CERTIFICATE", "clientCert")
CABlock == Block("CERTIFICATE", "caCert")
KeyBlocks == {Block(t, "clientKey") : t \in {"PRIVATE KEY", "EC PRIVATE KEY"}}

\* Server.AuthData as text: a JSON object (its string members, PEM members
\* as block sequences), or text that is no JSON (a pasted PEM bundle as its
\* blocks, any other text as one word).
JsonAuthData(certPem, keyPem, caPem, token) ==
    [json |-> TRUE, certPem |-> certPem, keyPem |-> keyPem, caPem |-> caPem,
     token |-> token, blocks |-> <<>>, text |-> "",
     certFile |-> "", keyFile |-> "", caFile |-> ""]

RawAuthData(blocks, text) ==
    [json |-> FALSE, certPem |-> <<>>, keyPem |-> <<>>, caPem |-> <<>>,
     token |-> "", blocks |-> blocks, text |-> text,
     certFile |-> "", keyFile |-> "", caFile |-> ""]

\* A JSON object with the file path members.
FileAuthData(certFile, keyFile, caFile) ==
    [json |-> TRUE, certPem |-> <<>>, keyPem |-> <<>>, caPem |-> <<>>,
     token |-> "", blocks |-> <<>>, text |-> "",
     certFile |-> certFile, keyFile |-> keyFile, caFile |-> caFile]

\* The files of the panel's host: os.ReadFile gives the blocks of a PEM
\* file, no block for a file of other text, and fails for a missing file.
ReadFile(name) ==
    IF name = "cert.pem" THEN [ok |-> TRUE, blocks |-> <<CertBlock>>]
    ELSE IF name = "key.pem"
    THEN [ok |-> TRUE, blocks |-> <<Block("PRIVATE KEY", "clientKey")>>]
    ELSE IF name = "ca.pem" THEN [ok |-> TRUE, blocks |-> <<CABlock>>]
    ELSE IF name = "notes.txt" THEN [ok |-> TRUE, blocks |-> <<>>]
    ELSE [ok |-> FALSE, blocks |-> <<>>]

\* The orders in which three blocks can be pasted.
Orders == {<<1, 2, 3>>, <<1, 3, 2>>, <<2, 1, 3>>, <<2, 3, 1>>, <<3, 1, 2>>, <<3, 2, 1>>}

\* The pasted bundle of the client certificate, the key k and the CA
\* certificate, in order o.
Bundle(k, o) ==
    LET b == <<CertBlock, k, CABlock>>
    IN RawAuthData(<<b[o[1]], b[o[2]], b[o[3]]>>, "")

\* The same material inlined as certPem, keyPem and caPem.
Inlined(k) == JsonAuthData(<<CertBlock>>, <<k>>, <<CABlock>>, "")

\* Auth data a node row may hold.
AuthDatas ==
    {Bundle(k, o) : k \in KeyBlocks, o \in Orders}
        \cup {Inlined(k) : k \in KeyBlocks}
        \cup {JsonAuthData(<<CertBlock>>, <<k>>, <<>>, "") : k \in KeyBlocks}
        \cup {RawAuthData(<<CertBlock, k>>, "") : k \in KeyBlocks}
        \cup {FileAuthData("cert.pem", "key.pem", a) :
                a \in {"ca.pem", "", "absent.pem", "notes.txt"}}
        \cup {FileAuthData("absent.pem", "key.pem", "ca.pem"),
              FileAuthData("cert.pem", "cert.pem", "ca.pem"),
              FileAuthData("cert.pem", "", "ca.pem"),
              FileAuthData("", "", "ca.pem")}
        \cup {JsonAuthData(<<>>, <<>>, <<>>, "tok"), JsonAuthData(<<>>, <<>>, <<>>, ""),
              RawAuthData(<<>>, "tok"), RawAuthData(<<>>, "")}

\* What the HTTP round trip of a request may come to.
Envelope(success, hasError, code, message) ==
    [kind |-> "envelope", cause |-> "", success |-> success, hasError |-> hasError,
     code |-> code, message |-> message]

TransportFailure(kind, cause) ==
    [kind |-> kind, cause |-> cause, success |-> FALSE, hasError |-> FALSE,
     code |-> "", message |-> ""]

\* Codes and messages a remote node may put in its error object.
ErrorCodes == {"NOT_FOUND", "request failed: "}
ErrorMessages == {"inbound not found", " - "}

RoundTrips ==
    {TransportFailure("doError", c) :
        c \in {"connection refused", "tls handshake failure", "timeout"}}
        \cup {TransportFailure("readError", "timeout"),
              TransportFailure("notJson", "")}
        \cup {Envelope(TRUE, FALSE, "", ""), Envelope(FALSE, FALSE, "", "")}
        \cup {Envelope(sc, TRUE, c, m) :
                sc \in BOOLEAN, c \in ErrorCodes, m \in ErrorMessages}

NoConnector == [authType |-> "", authData |-> RawAuthData(<<>>, ""), err |-> "none",
                cert |-> "", key |-> "", roots |-> {}, token |-> ""]
NoCall == [trip |-> TransportFailure("", ""), ok |-> FALSE, err |-> <<>>]

\* Client indexes UpdateClient is called with.
MaxClientIndex == 1
ClientIndexes == 0..MaxClientIndex

\* Decimal text of a small number, as %d prints it.
Decimal(n) == <<"0", "1", "2", "3", "4", "5", "6", "7", "8", "9">>[n + 1]

\* The routes SetupRouter registers: the method and the segments of the
\* pattern, a segment that starts with a colon being a parameter.
Params == {":id", ":email"}
ApiV1(segs) == <<"api", "v1">> \o segs
Route(method, pattern) == [method |-> method, pattern |-> pattern]
RegisteredRoutes ==
    { Route("GET", ApiV1(<<"health">>)),
      Route("GET", ApiV1(<<"info">>)),
      Route("GET", ApiV1(<<"inbounds">>)),
      Route("GET", ApiV1(<<"inbounds", ":id">>)),
      Route("POST", ApiV1(<<"inbounds">>)),
      Route("PUT", ApiV1(<<"inbounds", ":id">>)),
      Route("DELETE", ApiV1(<<"inbounds", ":id">>)),
      Route("POST", ApiV1(<<"inbounds", ":id", "clients">>)),
      Route("DELETE", ApiV1(<<"inbounds", ":id", "clients", ":email">>)),
      Route("GET", ApiV1(<<"traffic">>)),
      Route("GET", ApiV1(<<"traffic", "clients">>)),
      Route("GET", ApiV1(<<"clients", "online">>)),
      Route("POST", ApiV1(<<"xray", "start">>)),
      Route("POST", ApiV1(<<"xray", "stop">>)),
      Route("POST", ApiV1(<<"xray", "restart">>)),
      Route("GET", ApiV1(<<"xray", "version">>)),
      Route("GET", ApiV1(<<"xray", "config">>)),
      Route("GET", ApiV1(<<"system", "stats">>)),
      Route("GET", ApiV1(<<"logs">>)),
      Route("POST", ApiV1(<<"geofiles", "update">>)),
      Route("GET", <<>>) }

\* The request of a contract operation: the method and the path doRequest
\* is given, the path as its segments (a query string is no part of it).
Request(op, method, path) == [op |-> op, method |-> method, path |-> path]
ContractRequests ==
    { Request("GetServerInfo", "GET", ApiV1(<<"info">>)),
      Request("GetHealth", "GET", ApiV1(<<"health">>)),
      Request("ListInbounds", "GET", ApiV1(<<"inbounds">>)),
      Request("AddInbound", "POST", ApiV1(<<"inbounds">>)),
      Request("GetOnlineClients", "GET", ApiV1(<<"clients", "online">>)),
      Request("GetTraffic", "GET", ApiV1(<<"traffic">>)),
      Request("GetClientTraffics", "GET", ApiV1(<<"traffic", "clients">>)),
      Request("StartXray", "POST", ApiV1(<<"xray", "start">>)),
      Request("StopXray", "POST", ApiV1(<<"xray", "stop">>)),
      Request("RestartXray", "POST", ApiV1(<<"xray", "restart">>)),
      Request("GetXrayVersion", "GET", ApiV1(<<"xray", "version">>)),
      Request("GetXrayConfig", "GET", ApiV1(<<"xray", "config">>)),
      Request("GetSystemStats", "GET", ApiV1(<<"system", "stats">>)),
      Request("GetLogs", "GET", ApiV1(<<"logs">>)),
      Request("UpdateGeoFiles", "POST", ApiV1(<<"geofiles", "update">>)),
      Request("InstallXray", "POST", ApiV1(<<"xray", "install">>)),
      Request("GenerateCert", "POST", ApiV1(<<"certificates", "generate">>)),
      Request("GetCerts", "GET", ApiV1(<<"certificates">>)),
      Request("BackupDatabase", "POST", ApiV1(<<"backup">>)),
      Request("RestoreDatabase", "POST", ApiV1(<<"restore">>)) }
    \cup { Request("GetInbound", "GET", ApiV1(<<"inbounds", Decimal(i)>>)) :
                i \in InboundIds }
    \cup { Request("UpdateInbound", "PUT", ApiV1(<<"inbounds", Decimal(i)>>)) :
                i \in InboundIds }
    \cup { Request("DeleteInbound", "DELETE", ApiV1(<<"inbounds", Decimal(i)>>)) :
                i \in InboundIds }
    \cup { Request("AddClient", "POST",
                   ApiV1(<<"inbounds", Decimal(i), "clients">>)) :
                i \in InboundIds }
    \cup { Request("UpdateClient", "PUT",
                   ApiV1(<<"inbounds", Decimal(i[1]), "clients", Decimal(i[2])>>)) :
                i \in InboundIds \X ClientIndexes }
    \cup { Request("DeleteClient", "DELETE",
                   ApiV1(<<"inbounds", Decimal(i[1]), "clients", i[2]>>)) :
                i \in InboundIds \X Emails }
    \cup { Request("ResetClientTraffic", "POST",
                   ApiV1(<<"inbounds", Decimal(i[1]), "clients", i[2],
                           "reset-traffic">>)) :
                i \in InboundIds \X Emails }

NoRoute == Route("", <<>>)
NoneSent == [op |-> "", method |-> "", path |-> <<>>, route |-> NoRoute]

RemoteInit ==
    /\ rc = NoConnector
    /\ rcOut = NoCall
    /\ sent = NoneSent

\* ------------------------------------------------------ migration: values

\* tablesToMigrate, in the order of the loop.
TablesToMigrate == <<"inbounds", "client_traffics", "outbound_traffics",
                     "inbound_client_ips">>
TableIdx == DOMAIN TablesToMigrate

\* A table: whether it has the server_id column, and how many of its rows
\* have server_id NULL (or no such column yet) and how many server_id = 1.
TableState(hasColumn, null, one) ==
    [hasColumn |-> hasColumn, null |-> null, one |-> one]

\* The databases a panel may start on before the migration ever ran: no
\* server rows, no MultiServerMigration row in history_of_seeders, no index;
\* the column there or not (AutoMigrate adds it where the model has the
\* field), legacy rows in the tables.
LegacyDatabases ==
    {[history |-> 0, servers |-> {}, seeded |-> 0, indexes |-> {}, tables |-> t] :
        t \in [TableIdx -> {TableState(c, n, 0) :
                                c \in BOOLEAN, n \in 0..MaxLegacyRows}]}

NoRun == [pc |-> "off", t |-> 1, runs |-> 0]

\* A database the migration is not run on.
MigrationIdle ==
    /\ mdb = [history |-> 0, servers |-> {}, seeded |-> 0, indexes |-> {},
              tables |-> [i \in TableIdx |-> TableState(TRUE, 0, 0)]]
    /\ mdb0 = mdb
    /\ mrun = NoRun

\* ---------------------------------------------------- environment: values

\* Length of the text of an environment variable.
MaxEnvLen == 3

\* The characters of such a text: a sign, digits, and one that is neither.
Digits == <<"0", "1", "2", "9">>
DigitValue(ch) == CHOOSE v \in 0..9 : ch = <<"0", "1", "2", "3", "4", "5", "6",
                                               "7", "8", "9">>[v + 1]
EnvChars == {"-", "x"} \cup {Digits[k] : k \in DOMAIN Digits}

\* The values of an environment variable: the empty text is what os.Getenv
\* gives for a variable that is not set.
EnvTexts == UNION {[1..n -> EnvChars] : n \in 0..MaxEnvLen}

\* loadHealthConfig, lines 26-30: the defaults.
DefaultMaxConcurrency == 10
DefaultCheckTimeout == 10
\* loadHealthConfig, line 34: the largest value taken from the environment.
HardMaxConcurrency == 100

Unloaded == [maxConcurrency |-> 0, checkTimeout |-> 0]

\* The panel's process with a monitor that is already constructed.
ConfigIdle ==
    /\ env = [maxConcurrency |-> <<>>, timeoutSec |-> <<>>]
    /\ healthCfg = [maxConcurrency |-> DefaultMaxConcurrency,
                    checkTimeout |-> DefaultCheckTimeout]

\* --------------------------------------------------- rate limiter: values

\* The limiter of an agent configured with AGENT_RATE_LIMIT = FineRateLimit,
\* on a clock of FineTicksPerMinute ticks a minute, up to MaxFineTicks.
FineRateLimit == 2
FineTicksPerMinute == 2
MaxFineTicks == 30

\* What is known of the most recent request: whether it was admitted,
\* whether a limiter that never removes a bucket admitted it, and whether
\* cleanup had removed the caller's bucket before it.
NoRequest == [ok |-> TRUE, kept |-> TRUE, fresh |-> FALSE]

\* NewRateLimiter: no bucket. The rest is history: admitted, for each caller
\* the times of its admitted requests of less than a minute ago; kept, the
\* buckets of a limiter that serves the same requests and never removes a
\* bucket; last, the most recent request.
LimiterInit ==
    lim = [now |-> 0, limit |-> FineRateLimit,
           buckets |-> [k \in Callers |-> NoBucket],
           admitted |-> [k \in Callers |-> <<>>],
           kept |-> [k \in Callers |-> NoBucket],
           last |-> NoRequest]

\* ------------------------------------------------- the log endpoint: values

\* A path is the sequence of the pieces of its text: the separator "/", the
\* names "." and "..", and pieces of names, none of which begins another.
AllowedPaths ==
    << <<"/", "var", "/", "log", "/", "x-ui-agent", "/">>,
       <<"/", "var", "/", "log", "/", "3", "x-ui-agent", "/">>,
       <<"/", "tmp", "/", "x-ui-agent", "/">>,
       <<".", "/", "log", "s", "/">> >>

\* The default of readLogFile for an AGENT_LOG_FILE that is not set.
DefaultLogFile == <<"/", "var", "/", "log", "/", "x-ui-agent", "/", "agent.log">>

\* The directory beside an allow-listed one whose name goes on after it.
Sibling(dir) == SubSeq(dir, 1, Len(dir) - 1) \o <<"-old", "/">>

\* Values of AGENT_LOG_FILE: a directory (allow-listed, a sibling of one,
\* another, or none) and what follows it.
LogRoots ==
    {AllowedPaths[k] : k \in DOMAIN AllowedPaths}
    \cup {Sibling(AllowedPaths[k]) : k \in DOMAIN AllowedPaths}
    \cup {<<"/", "etc", "/">>, <<"/">>, <<>>}
LogRests ==
    { <<"agent.log">>,
      <<".", "/", "agent.log">>,
      <<"..", "/", "agent.log">>,
      <<"sub", "/", "agent.log">>,
      <<"..", "/", "..", "/", "..", "/", "etc", "/", "passwd">>,
      <<>> }
LogPaths == {root \o rest : root \in LogRoots, rest \in LogRests}

\* Length of the text of the count parameter, and its characters.
MaxCountLen == 4
CountChars == {"-", "x", "0", "1"}
CountTexts == UNION {[1..n -> CountChars] : n \in 0..MaxCountLen}

\* GetLogs, lines 446 and 454-459: the default, the largest and the
\* replacement for a count below 1.
DefaultLogCount == 100
MaxLogCount == 1000
SmallLogCount == 10

\* Lines of the largest log file.
MaxLogLines == 2000
\* The file at the path: missing; read by tail; read directly because tail
\* fails; or one that neither can read. Its lines end in a newline.
LogFiles ==
    {[kind |-> "missing", lines |-> 0]}
    \cup {[kind |-> k, lines |-> n] :
             k \in {"tail", "direct", "unreadable"}, n \in {0, 3, MaxLogLines}}

NoLogResp == [query |-> <<>>, count |-> 0, code |-> 0, error |-> "",
              message |-> "", lines |-> 0, read |-> <<>>]

\* An agent whose log endpoint is not called.
LogsIdle ==
    /\ logEnv = <<>>
    /\ logFs = [kind |-> "missing", lines |-> 0]
    /\ logResp = NoLogResp

\* ------------------------------------- read-only requests on the registry

\* The rows a registry may hold: the local node as it was seeded or as
\* UpdateServer saved it, the other nodes as UpdateServer saved them.
RegistryRows(i) ==
    IF i = 1
    THEN {[DefaultServer EXCEPT !.enabled = e, !.status = st] :
             e \in BOOLEAN, st \in {"online", "offline"}}
    ELSE {BodyRow(a, e, st, "pem") :
             a \in {"local", "mtls"}, e \in BOOLEAN, st \in {"online", "offline"}}

Registries ==
    UNION { {db \in [{1} \cup S -> UNION {RegistryRows(i) : i \in Ids}] :
                \A i \in {1} \cup S : db[i] \in RegistryRows(i)} :
            S \in SUBSET (Ids \ {1}) }

\* A query parameter: whether the URL carries it, and its text.
NoParam == [present |-> FALSE, text |-> <<>>]
Param(text) == [present |-> TRUE, text |-> text]

\* Values of the page and of the limit parameter of ListServers.
PageParams ==
    {NoParam} \cup {Param(t) : t \in {<<"0">>, <<"1">>, <<"2">>, <<"-", "1">>, <<"x">>}}
LimitParams ==
    {NoParam} \cup {Param(t) : t \in {<<>>, <<"0">>, <<"1">>, <<"2">>, <<"-", "1">>,
                                       <<"-", "2">>, <<"1", "0", "1">>}}

\* ListServers, lines 83-84: the defaults of page and limit; line 87: the
\* largest limit.
DefaultPage == <<"1">>
DefaultLimit == <<"2", "0">>
MaxPageLimit == 100

NoAgg == [pc |-> "idle", total |-> 0, online |-> 0, offline |-> 0,
          rows |-> <<>>, todo |-> {}]
NoView == [op |-> "", id |-> 0, err |-> "", page |-> 0, limit |-> 0,
           total |-> 0, window |-> <<>>, fault |-> FALSE]

\* A controller none of whose read-only requests was called.
ViewsIdle ==
    /\ agg = NoAgg
    /\ view = NoView

\* ------------------------------------------------- RestoreDatabase: values

\* Concurrent calls of RestoreDatabase.
MaxRestores == 2
Restorers == 1..MaxRestores

\* The content of a file: the database in use before any restore, a sound
\* SQLite database, a corrupt one, the part of one that a failed write left.
\* "none" is a file that does not exist.
Uploads == {"sound", "corrupt"}
\* In a call, replaced is history: the call renamed its backup over the
\* live file.
NoRestore == [pc |-> "idle", data |-> "", err |-> "", replaced |-> FALSE]

\* A panel on which RestoreDatabase is not called.
RestoreIdle ==
    /\ live = "db0"
    /\ backup = "none"
    /\ restore = [r \in Restorers |-> NoRestore]

\* -------------------------------------------------------------------- Init

\* In a task, rank is history: how many other invocations' checks of the
\* node had started when this check started.
NoTask == [pc |-> "none", out |-> "", res |-> "", ver0 |-> "", n |-> 0, rank |-> 0]
IdleCycle == [pc |-> "idle", online |-> 0, offline |-> 0, error |-> 0, budget0 |-> 0]
NoReply == [op |-> "", id |-> 0, err |-> ""]

InitWith(b) ==
    /\ servers = [i \in {1} |-> DefaultServer]
    /\ inbounds = [i \in Ids |-> 0]
    /\ failures = [i \in Ids |-> 0]
    /\ now = 0
    /\ cycle = [c \in Cycles |-> IdleCycle]
    /\ task = [c \in Cycles |-> [i \in Ids |-> NoTask]]
    /\ delPending = {}
    /\ budget = b
    /\ reply = NoReply
    /\ streak = [i \in Ids |-> 0]
    /\ refused = {}

Init ==
    /\ InitWith(MaxAdminOps)
    /\ AgentInit([authType |-> "mtls", caFile |-> "cert", leaf |-> TRUE])
    /\ StoreInit
    /\ RemoteInit
    /\ MigrationIdle
    /\ ConfigIdle
    /\ LimiterInit
    /\ LogsIdle
    /\ ViewsIdle
    /\ RestoreIdle

\* The registries a monitor may find: the local node, and any of the other
\* ids as AddServer stores it, with a local or a remote auth type.
Fleets ==
    UNION { { [i \in {1} \cup S |->
                 IF i = 1 THEN DefaultServer
                 ELSE AddServerRow([j \in {1} |-> DefaultServer], i,
                                   BodyRow(a[i], FALSE, "", "pem"))[i]] :
              a \in [S -> {"local", "mtls"}] } :
            S \in SUBSET (Ids \ {1}) }

\* A monitor over a registry that no administrative request changes.
InitFleet ==
    /\ servers \in Fleets
    /\ inbounds = [i \in Ids |-> 0]
    /\ failures = [i \in Ids |-> 0]
    /\ now = 0
    /\ cycle = [c \in Cycles |-> IdleCycle]
    /\ task = [c \in Cycles |-> [i \in Ids |-> NoTask]]
    /\ delPending = {}
    /\ budget = 0
    /\ reply = NoReply
    /\ streak = [i \in Ids |-> 0]
    /\ refused = {}
    /\ AgentInit([authType |-> "mtls", caFile |-> "cert", leaf |-> TRUE])
    /\ StoreInit
    /\ RemoteInit
    /\ MigrationIdle
    /\ ConfigIdle
    /\ LimiterInit
    /\ LogsIdle
    /\ ViewsIdle
    /\ RestoreIdle

InitRegistry ==
    /\ InitWith(MaxRegistryOps)
    /\ AgentInit([authType |-> "mtls", caFile |-> "cert", leaf |-> TRUE])
    /\ StoreInit
    /\ RemoteInit
    /\ MigrationIdle
    /\ ConfigIdle
    /\ LimiterInit
    /\ LogsIdle
    /\ ViewsIdle
    /\ RestoreIdle

\* ---------------------------------------------------- administrative requests

Served == budget' = budget - 1

Reply(op, id, err) == [op |-> op, id |-> id, err |-> err]

\* ServerManagementController.AddServer
AddServer(id, authType, status, authData) ==
    /\ budget > 0
    /\ Served
    /\ IF authType \notin AuthKinds
       THEN /\ reply' = Reply("AddServer", id, "Invalid auth type")
            /\ UNCHANGED servers
       ELSE IF id \in DOMAIN servers
       THEN /\ reply' = Reply("AddServer", id, "Failed to add server")
            /\ UNCHANGED servers
       ELSE /\ servers' = AddServerRow(servers, id, BodyRow(authType, FALSE, status, authData))
            /\ reply' = Reply("AddServer", id, "")
    /\ UNCHANGED <<inbounds, delPending, refused>>
    /\ UNCHANGED monitorVars
    /\ UNCHANGED externalVars

\* ServerManagementController.UpdateServer
UpdateServer(id, authType, enabled, status, authData) ==
    /\ budget > 0
    /\ Served
    /\ servers' = SaveServerRow(servers, id, BodyRow(authType, enabled, status, authData))
    /\ reply' = Reply("UpdateServer", id, "")
    /\ UNCHANGED <<inbounds, delPending, refused>>
    /\ UNCHANGED monitorVars
    /\ UNCHANGED externalVars

\* A DeleteServer without its guard on id 1.
IsLocalServer_Never(id) == FALSE

\* DeleteServer, lines 228-230: the local node.
IsLocalServer(id) == id = 1

\* A DeleteServer that ignores its inbound count.
HasInbounds_Never(n) == FALSE

\* DeleteServer, lines 234-240: the node owns inbounds.
HasInbounds(n) == n > 0

\* ServerManagementService.DeleteServer up to its inbound count: the guard on
\* id 1, then the count of the inbounds the node owns.
DeleteServerBegin(id) ==
    /\ budget > 0
    /\ Served
    /\ IF IsLocalServer(id)
       THEN /\ reply' = Reply("DeleteServer", id, "cannot delete local server")
            /\ UNCHANGED <<delPending, refused>>
       ELSE IF HasInbounds(inbounds[id])
       THEN /\ reply' = Reply("DeleteServer", id,
                              "cannot delete server with existing inbounds")
            /\ refused' = refused \cup {id}
            /\ UNCHANGED delPending
       ELSE /\ delPending' = delPending \cup {id}
            /\ UNCHANGED <<reply, refused>>
    /\ UNCHANGED <<servers, inbounds>>
    /\ UNCHANGED monitorVars
    /\ UNCHANGED externalVars

\* ServerManagementService.DeleteServer from its delete statement on.
DeleteServerEnd(id) ==
    /\ id \in delPending
    /\ delPending' = delPending \ {id}
    /\ servers' = DeleteServerRow(servers, id)
    /\ reply' = Reply("DeleteServer", id, "")
    /\ UNCHANGED <<inbounds, budget, refused>>
    /\ UNCHANGED monitorVars
    /\ UNCHANGED externalVars

\* LocalConnector.AddInbound through the executor GetConnector hands out for
\* the node: the record is stamped with the executor's node id.
AddInbound(id) ==
    /\ budget > 0
    /\ GetConnector(servers, id) = "local"
    /\ inbounds[id] < MaxInbounds
    /\ Served
    /\ inbounds' = [inbounds EXCEPT ![id] = @ + 1]
    /\ reply' = Reply("AddInbound", id, "")
    /\ UNCHANGED <<servers, delPending, refused>>
    /\ UNCHANGED monitorVars
    /\ UNCHANGED externalVars

\* LocalConnector.DeleteInbound: the ownership check, then the delete.
DeleteInbound(id) ==
    /\ budget > 0
    /\ GetConnector(servers, id) = "local"
    /\ inbounds[id] > 0
    /\ Served
    /\ inbounds' = [inbounds EXCEPT ![id] = @ - 1]
    /\ reply' = Reply("DeleteInbound", id, "")
    /\ UNCHANGED <<servers, delPending, refused>>
    /\ UNCHANGED monitorVars
    /\ UNCHANGED externalVars

Admin ==
    \/ \E id \in Ids, a \in InAuth, s \in InStatus, d \in InData :
            AddServer(id, a, s, d)
    \/ \E id \in Ids, a \in InAuth \ {""}, e \in BOOLEAN, s \in InStatus,
          d \in InData :
            UpdateServer(id, a, e, s, d)
    \/ \E id \in Ids : DeleteServerBegin(id)
    \/ \E id \in Ids : DeleteServerEnd(id)
    \/ \E id \in Ids : AddInbound(id)
    \/ \E id \in Ids : DeleteInbound(id)

\* ------------------------------------------------------------ health monitor

\* Run, lines 78-81: the only enabled node is the local one.
OnlyLocal(enabled) == enabled = {1}

\* A Run that does not filter out the local node.
RemoteServers_All(enabled) == enabled

\* Run, lines 83-89: the enabled nodes without the local one.
RemoteServers(enabled) == enabled \ {1}

\* A goroutine that keeps its worker slot when it returns.
Holding_Kept == {"acquired", "calling", "failWrite", "failRec",
                 "okReset", "okWrite", "okMeta", "okInfo", "tally", "done"}

\* Positions of a health-check goroutine at which it holds a worker slot.
Holding == {"acquired", "calling", "failWrite", "failRec",
            "okReset", "okWrite", "okMeta", "okInfo", "tally"}

\* Slots of the semaphore of invocation c that are taken.
InFlight(c) == Cardinality({i \in Ids : task[c][i].pc \in Holding})

\* semaphore <- struct{}{} on the channel of capacity MaxConcurrency that
\* this invocation of Run made.
CanAcquire(c) == InFlight(c) < MaxConcurrency

\* What GetHealth of the executor returns: the LocalConnector reports the
\* state of the proxy engine and no error.
HealthOutcomes(conn) ==
    IF conn = "local"
    THEN {[err |-> FALSE, status |-> st] : st \in LocalHealth}
    ELSE {[err |-> TRUE, status |-> ""]}

\* The version LocalConnector.GetHealth and GetServerInfo report.
PanelVersion == "v"

\* Run up to the spawning of the goroutines: the scheduler triggers a cycle
\* one period after the previous one.
StartCycle(c) ==
    /\ cycle[c].pc = "idle"
    /\ now = c - 1
    /\ now' = c
    /\ LET enabled == GetEnabledServers(servers)
           remote == RemoteServers(enabled)
       IN IF OnlyLocal(enabled) \/ remote = {}
          THEN /\ cycle' = [cycle EXCEPT ![c].pc = "returned", ![c].budget0 = budget]
               /\ UNCHANGED task
          ELSE /\ cycle' = [cycle EXCEPT ![c].pc = "running", ![c].budget0 = budget]
               /\ task' = [task EXCEPT ![c] =
                     [i \in Ids |->
                        IF i \in remote
                        THEN [NoTask EXCEPT !.pc = "queued",
                                            !.ver0 = servers[i].version]
                        ELSE NoTask]]
    /\ UNCHANGED <<servers, failures, streak>>
    /\ UNCHANGED requestVars
    /\ UNCHANGED externalVars

\* The goroutine takes a worker slot.
Acquire(c, i) ==
    /\ task[c][i].pc = "queued"
    /\ CanAcquire(c)
    /\ task' = [task EXCEPT ![c][i].pc = "acquired"]
    /\ UNCHANGED <<servers, failures, now, cycle, streak>>
    /\ UNCHANGED requestVars
    /\ UNCHANGED externalVars

\* checkServer, lines 168-175: the executor of the node.
CheckGetConnector(c, i) ==
    /\ task[c][i].pc = "acquired"
    /\ task' = [task EXCEPT
            ![c][i].n = @ + 1,
            ![c][i].rank = Cardinality({d \in Cycles \ {c} : task[d][i].n > 0}),
            ![c][i].pc = IF GetConnector(servers, i) = "error"
                         THEN "failWrite" ELSE "calling",
            ![c][i].out = IF GetConnector(servers, i) = "error"
                          THEN "connErr" ELSE ""]
    /\ UNCHANGED <<servers, failures, now, cycle, streak>>
    /\ UNCHANGED requestVars
    /\ UNCHANGED externalVars

\* checkServer, lines 177-188: GetHealth of the LocalConnector returns.
CheckGetHealth(c, i) ==
    /\ task[c][i].pc = "calling"
    /\ \E h \in HealthOutcomes("local") :
          task' = [task EXCEPT
              ![c][i].pc = IF h.err THEN "failWrite" ELSE "okReset",
              ![c][i].out = IF h.err THEN "healthErr" ELSE "ok",
              ![c][i].res = h.status]
    /\ UNCHANGED <<servers, failures, now, cycle, streak>>
    /\ UNCHANGED requestVars
    /\ UNCHANGED externalVars

\* A checkServer that returns a status the summary has no counter for.
FailureStatus_Failed(out) == "failed"

\* The status and the message checkServer writes for a failed check.
FailureStatus(out) == IF out = "connErr" THEN "error" ELSE "offline"

FailureMessage(out) ==
    IF out = "connErr" THEN "Failed to create connector" ELSE "Health check failed"

\* checkServer, lines 172 and 185: the status write of a failed check.
CheckWriteFailure(c, i) ==
    /\ task[c][i].pc = "failWrite"
    /\ servers' = UpdateServerStatus(servers, i, FailureStatus(task[c][i].out),
                                     FailureMessage(task[c][i].out), now)
    /\ task' = [task EXCEPT ![c][i].pc = "failRec",
                            ![c][i].res = FailureStatus(task[c][i].out)]
    /\ UNCHANGED <<failures, now, cycle, streak>>
    /\ UNCHANGED requestVars
    /\ UNCHANGED externalVars

\* checkServer, lines 173 and 186: recordFailure.
CheckRecordFailure(c, i) ==
    /\ task[c][i].pc = "failRec"
    /\ failures' = recordFailure(failures, i)
    /\ streak' = [streak EXCEPT ![i] = @ + 1]
    /\ task' = [task EXCEPT ![c][i].pc = "tally"]
    /\ UNCHANGED <<servers, now, cycle>>
    /\ UNCHANGED requestVars
    /\ UNCHANGED externalVars

\* checkServer, line 191: resetFailure.
CheckResetFailure(c, i) ==
    /\ task[c][i].pc = "okReset"
    /\ failures' = resetFailure(failures, i)
    /\ streak' = [streak EXCEPT ![i] = 0]
    /\ task' = [task EXCEPT ![c][i].pc = "okWrite"]
    /\ UNCHANGED <<servers, now, cycle>>
    /\ UNCHANGED requestVars
    /\ UNCHANGED externalVars

\* The status checkServer writes for a check whose GetHealth reported h:
\* health.Status as reported.
SuccessStatus(h) == h

\* checkServer, line 194: the status write of a successful check.
CheckWriteSuccess(c, i) ==
    /\ task[c][i].pc = "okWrite"
    /\ servers' = UpdateServerStatus(servers, i, SuccessStatus(task[c][i].res),
                                     "", now)
    /\ task' = [task EXCEPT ![c][i].pc = "okMeta"]
    /\ UNCHANGED <<failures, now, cycle, streak>>
    /\ UNCHANGED requestVars
    /\ UNCHANGED externalVars

\* checkServer, lines 197-199: updateServerMetadata.
CheckUpdateMetadata(c, i) ==
    /\ task[c][i].pc = "okMeta"
    /\ servers' = UpdateServerMetadata(servers, i, PanelVersion)
    /\ task' = [task EXCEPT ![c][i].pc =
            IF task[c][i].ver0 = "" THEN "okInfo" ELSE "tally"]
    /\ UNCHANGED <<failures, now, cycle, streak>>
    /\ UNCHANGED requestVars
    /\ UNCHANGED externalVars

\* checkServer, lines 203-205: refreshServerInfo, when the node as fetched at
\* the start of the cycle had no version.
CheckRefreshInfo(c, i) ==
    /\ task[c][i].pc = "okInfo"
    /\ servers' = UpdateServerMetadata(servers, i, PanelVersion)
    /\ task' = [task EXCEPT ![c][i].pc = "tally"]
    /\ UNCHANGED <<failures, now, cycle, streak>>
    /\ UNCHANGED requestVars
    /\ UNCHANGED externalVars

\* Run, lines 144-154 and the deferred calls: the summary counter of the
\* returned status, the release of the slot, wg.Done.
Tally(c, i) ==
    /\ task[c][i].pc = "tally"
    /\ cycle' = [cycle EXCEPT
            ![c].online = @ + (IF task[c][i].res = "online" THEN 1 ELSE 0),
            ![c].offline = @ + (IF task[c][i].res = "offline" THEN 1 ELSE 0),
            ![c].error = @ + (IF task[c][i].res = "error" THEN 1 ELSE 0)]
    /\ task' = [task EXCEPT ![c][i].pc = "done"]
    /\ UNCHANGED <<servers, failures, now, streak>>
    /\ UNCHANGED requestVars
    /\ UNCHANGED externalVars

\* A Run whose barrier is passed as soon as one goroutine is not running.
AllDone_Any(c) == \E i \in Ids : task[c][i].pc \in {"none", "done"}

\* wg.Wait returns: every goroutine of the invocation has called wg.Done.
AllDone(c) == \A i \in Ids : task[c][i].pc \in {"none", "done"}

\* Run, lines 158-163: wg.Wait returns and the summary is logged.
FinishCycle(c) ==
    /\ cycle[c].pc = "running"
    /\ AllDone(c)
    /\ cycle' = [cycle EXCEPT ![c].pc = "finished"]
    /\ UNCHANGED <<servers, failures, now, task, streak>>
    /\ UNCHANGED requestVars
    /\ UNCHANGED externalVars

\* The steps of the goroutine of node i in invocation c.
TaskStep(c, i) ==
    \/ Acquire(c, i)
    \/ CheckGetConnector(c, i)
    \/ CheckGetHealth(c, i)
    \/ CheckWriteFailure(c, i)
    \/ CheckRecordFailure(c, i)
    \/ CheckResetFailure(c, i)
    \/ CheckWriteSuccess(c, i)
    \/ CheckUpdateMetadata(c, i)
    \/ CheckRefreshInfo(c, i)
    \/ Tally(c, i)

\* The scheduler runs every goroutine that can run, and every call a health
\* check makes returns: a step that stays possible is taken.
MonitorFairness ==
    /\ \A c \in Cycles, i \in Ids : WF_vars(TaskStep(c, i))
    /\ \A c \in Cycles : WF_vars(FinishCycle(c))

Monitor ==
    \/ \E c \in Cycles : StartCycle(c)
    \/ \E c \in Cycles, i \in Ids : Acquire(c, i)
    \/ \E c \in Cycles, i \in Ids : CheckGetConnector(c, i)
    \/ \E c \in Cycles, i \in Ids : CheckGetHealth(c, i)
    \/ \E c \in Cycles, i \in Ids : CheckWriteFailure(c, i)
    \/ \E c \in Cycles, i \in Ids : CheckRecordFailure(c, i)
    \/ \E c \in Cycles, i \in Ids : CheckResetFailure(c, i)
    \/ \E c \in Cycles, i \in Ids : CheckWriteSuccess(c, i)
    \/ \E c \in Cycles, i \in Ids : CheckUpdateMetadata(c, i)
    \/ \E c \in Cycles, i \in Ids : CheckRefreshInfo(c, i)
    \/ \E c \in Cycles, i \in Ids : Tally(c, i)
    \/ \E c \in Cycles : FinishCycle(c)

\* ------------------------------------------------- the agent: HTTP server

\* tls.Config.ClientAuth of startTLSServer and startHTTPSServer: the field is
\* not set, so it is NoClientCert.
ClientAuth == "NoClientCert"

\* crypto/tls, server side: the handshake fails only when the policy demands
\* a verified client certificate and the client offers none that verifies.
Handshake(clientAuth, cert) ==
    IF clientAuth = "RequireAndVerifyClientCert" /\ cert # "configuredCA"
    THEN "fail" ELSE "ok"

\* Request.TLS.PeerCertificates: under NoClientCert the server requests no
\* certificate and the client sends none.
PeerCertificates(clientAuth, cert) ==
    IF clientAuth = "NoClientCert" THEN "none" ELSE cert

\* tls.LoadX509KeyPair(certFile, keyFile) on what the two files hold.
LoadX509KeyPair(certFile, keyFile) ==
    certFile \in {"cert", "cert+key"} /\ keyFile \in {"key", "cert+key"}

\* MTLSAuth, lines 18-35: what constructing the middleware does.
MTLSAuthSetup(cfg) ==
    IF ~LoadX509KeyPair(cfg.caFile, cfg.caFile) THEN "error"
    ELSE IF ~cfg.leaf THEN "panic"
    ELSE "ok"

\* MTLSAuth, lines 37-87: the error code it aborts with, "" when it passes.
MTLSAuth(cfg, peer) ==
    IF MTLSAuthSetup(cfg) = "error" THEN "MTLS_SETUP_ERROR"
    ELSE IF peer = "none" THEN "CLIENT_CERT_REQUIRED"
    ELSE IF peer # "configuredCA" THEN "CERT_VERIFICATION_FAILED"
    ELSE ""

\* JWTAuth: the error code it aborts with, "" when it passes.
JWTAuth(secret, header) ==
    IF header = <<>> THEN "AUTH_REQUIRED"
    ELSE IF Head(header) # "Bearer " THEN "INVALID_AUTH_FORMAT"
    ELSE IF Tail(header) # <<secret>> THEN "INVALID_TOKEN"
    ELSE ""

\* SetupRouter, lines 35-40: the authentication middleware of the protected
\* group.
AuthMiddleware(cfg, cert, header) ==
    IF cfg.authType = "mtls"
    THEN MTLSAuth(cfg, PeerCertificates(ClientAuth, cert))
    ELSE JWTAuth(JWTSecret, header)

\* The HTTP status the authentication middleware aborts with.
AuthStatus(error) == IF error = "MTLS_SETUP_ERROR" THEN 500 ELSE 401

\* SetupRouter, lines 46-101: the route table. What answers the request once
\* the global middleware let it through.
Dispatch(cfg, route, cert, header) ==
    IF route = RouteHealth THEN [code |-> 200, error |-> "", handler |-> "Health"]
    ELSE IF route = RouteRoot THEN [code |-> 200, error |-> "", handler |-> "Root"]
    ELSE IF route \in ProtectedRoutes
    THEN LET e == AuthMiddleware(cfg, cert, header)
         IN IF e # ""
            THEN [code |-> AuthStatus(e), error |-> e, handler |-> ""]
            ELSE [code |-> 200, error |-> "", handler |-> route]
    ELSE [code |-> 404, error |-> "", handler |-> ""]

\* A rate limiter that never refills.
tokensToAdd_None(elapsed) == 0

\* allow, lines 253-254: int(elapsed.Minutes() * float64(rl.limit)).
tokensToAdd(elapsed) == (elapsed * RateLimit) \div TicksPerMinute

\* allow, lines 256-262: the refill.
Refill(b, t) ==
    LET add == tokensToAdd(t - b.lastRefill)
    IN IF add > 0
       THEN [b EXCEPT !.tokens = IF b.tokens + add > RateLimit
                                 THEN RateLimit ELSE b.tokens + add,
                      !.lastRefill = t]
       ELSE b

\* A limiter that keeps one bucket for all callers.
allow_Shared(bs, key, t) ==
    LET b0 == IF bs[key].exists THEN bs[key]
              ELSE [exists |-> TRUE, tokens |-> RateLimit, lastRefill |-> t]
        b1 == Refill(b0, t)
    IN IF b1.tokens > 0
       THEN [ok |-> TRUE, buckets |-> [k \in DOMAIN bs |-> [b1 EXCEPT !.tokens = @ - 1]]]
       ELSE [ok |-> FALSE, buckets |-> [k \in DOMAIN bs |-> b1]]

\* RateLimiter.allow under rl.mu: whether the request is allowed, and the
\* buckets afterwards.
allow(bs, key, t) ==
    LET b0 == IF bs[key].exists THEN bs[key]
              ELSE [exists |-> TRUE, tokens |-> RateLimit, lastRefill |-> t]
        b1 == Refill(b0, t)
    IN IF b1.tokens > 0
       THEN [ok |-> TRUE, buckets |-> [bs EXCEPT ![key] = [b1 EXCEPT !.tokens = @ - 1]]]
       ELSE [ok |-> FALSE, buckets |-> [bs EXCEPT ![key] = b1]]

\* One request served: the TLS handshake, the global middleware with the
\* rate limiter, then the route with its authentication.
AgentRequest(ip, route, cert, header) ==
    /\ MTLSAuthSetup(agentCfg) # "panic" \/ agentCfg.authType # "mtls"
    /\ LET req == [ip |-> ip, route |-> route, cert |-> cert, header |-> header,
                   waited |-> IF /\ resp.code = 429 /\ resp.ip = ip
                                 /\ resp.route = route /\ resp.cert = cert
                                 /\ resp.header = header
                              THEN agentNow - rejectedAt ELSE -1]
           a == allow(buckets, ip, agentNow)
           d == Dispatch(agentCfg, route, cert, header)
       IN IF Handshake(ClientAuth, cert) = "fail"
          THEN /\ resp' = req @@ [code |-> 0, error |-> "", handler |-> ""]
               /\ rejectedAt' = -1
               /\ UNCHANGED buckets
          ELSE /\ buckets' = a.buckets
               /\ IF a.ok
                  THEN resp' = req @@ d /\ rejectedAt' = -1
                  ELSE /\ resp' = req @@ [code |-> 429, error |-> "RATE_LIMIT_EXCEEDED",
                                          handler |-> ""]
                       /\ rejectedAt' = agentNow
    /\ UNCHANGED <<agentCfg, agentNow>>
    /\ UNCHANGED besideAgent

\* RateLimiter.cleanup, on a tick of its ticker.
AgentCleanup ==
    /\ agentNow > 0
    /\ agentNow % (CleanupEveryMinutes * TicksPerMinute) = 0
    /\ buckets' = [k \in Callers |->
            IF buckets[k].exists
               /\ agentNow - buckets[k].lastRefill > BucketIdleMinutes * TicksPerMinute
            THEN NoBucket ELSE buckets[k]]
    /\ UNCHANGED <<agentCfg, agentNow, resp, rejectedAt>>
    /\ UNCHANGED besideAgent

\* Time passes.
AgentTick ==
    /\ agentNow < MaxTicks
    /\ agentNow' = agentNow + 1
    /\ UNCHANGED <<agentCfg, buckets, resp, rejectedAt>>
    /\ UNCHANGED besideAgent

\* Caller 1 tries every route with every credential; the other callers
\* probe the health route.
Agent ==
    \/ \E r \in Routes, k \in CredsOf(agentCfg.authType) :
            AgentRequest(1, r, k.cert, k.header)
    \/ \E ip \in Callers \ {1} : AgentRequest(ip, RouteHealth, "none", <<>>)
    \/ AgentCleanup
    \/ AgentTick

\* --------------------------------------- LocalConnector over the inbounds table

\* InboundService, the record store under the connector: rows are read,
\* written and deleted by their id.
InboundService_AddInbound(db, id, row) ==
    [i \in DOMAIN db \cup {id} |-> IF i = id THEN row ELSE db[i]]

InboundService_UpdateInbound(db, id, row) ==
    [db EXCEPT ![id] = [row EXCEPT !.clients = db[id].clients, !.used = db[id].used]]

InboundService_DelInbound(db, id) == [i \in DOMAIN db \ {id} |-> db[i]]

InboundService_AddInboundClient(db, id, email) ==
    [db EXCEPT ![id].clients = @ \cup {email}]

InboundService_UpdateInboundClient(db, id, settings) ==
    [db EXCEPT ![id].settings = settings]

InboundService_DelInboundClient(db, id, email) ==
    [db EXCEPT ![id].clients = @ \ {email}]

InboundService_ResetClientTraffic(db, id) == [db EXCEPT ![id].used = FALSE]

\* The WHERE clause of GetInbound: id = ? AND server_id = ?.
Owned(db, id, serverId) == id \in DOMAIN db /\ db[id].serverId = serverId

ConnReply(op, via, id, returned, err) ==
    [op |-> op, via |-> via, id |-> id, returned |-> returned, err |-> err]

\* LocalConnector.ListInbounds of the executor of node via.
ListInbounds(via) ==
    /\ connOut' = ConnReply("ListInbounds", via, 0,
                            {i \in DOMAIN records : records[i].serverId = via}, FALSE)
    /\ UNCHANGED records
    /\ UNCHANGED besideStore

\* LocalConnector.GetInbound
GetInbound(via, id) ==
    /\ connOut' = IF Owned(records, id, via)
                  THEN ConnReply("GetInbound", via, id, {id}, FALSE)
                  ELSE ConnReply("GetInbound", via, id, {}, TRUE)
    /\ UNCHANGED records
    /\ UNCHANGED besideStore

\* LocalConnector.AddInbound: the row is stamped with the executor's node id;
\* the store gives it a fresh id.
ConnAddInbound(via, id, settings, used) ==
    /\ id \notin DOMAIN records
    /\ records' = InboundService_AddInbound(records, id,
                        InboundRow(via, settings, {}, used))
    /\ connOut' = ConnReply("AddInbound", via, id, {}, FALSE)
    /\ UNCHANGED besideStore

\* LocalConnector.UpdateInbound: the row is stamped with the executor's node
\* id and handed to the store.
UpdateInbound(via, id, settings) ==
    /\ IF id \in DOMAIN records
       THEN /\ records' = InboundService_UpdateInbound(records, id,
                                InboundRow(via, settings, {}, FALSE))
            /\ connOut' = ConnReply("UpdateInbound", via, id, {}, FALSE)
       ELSE /\ connOut' = ConnReply("UpdateInbound", via, id, {}, TRUE)
            /\ UNCHANGED records
    /\ UNCHANGED besideStore

\* LocalConnector.DeleteInbound: GetInbound for the ownership, then the
\* delete.
ConnDeleteInbound(via, id) ==
    /\ IF Owned(records, id, via)
       THEN /\ records' = InboundService_DelInbound(records, id)
            /\ connOut' = ConnReply("DeleteInbound", via, id, {}, FALSE)
       ELSE /\ connOut' = ConnReply("DeleteInbound", via, id, {}, TRUE)
            /\ UNCHANGED records
    /\ UNCHANGED besideStore

\* LocalConnector.AddClient: the inbound the caller passes is stamped with
\* the executor's node id and handed to the store.
AddClient(via, id, email) ==
    /\ IF id \in DOMAIN records
       THEN /\ records' = InboundService_AddInboundClient(records, id, email)
            /\ connOut' = ConnReply("AddClient", via, id, {}, FALSE)
       ELSE /\ connOut' = ConnReply("AddClient", via, id, {}, TRUE)
            /\ UNCHANGED records
    /\ UNCHANGED besideStore

\* LocalConnector.UpdateClient: GetInbound for the existing row, the client
\* index, then the update.
UpdateClient(via, id, email, settings) ==
    /\ IF Owned(records, id, via) /\ email \in records[id].clients
       THEN /\ records' = InboundService_UpdateInboundClient(records, id, settings)
            /\ connOut' = ConnReply("UpdateClient", via, id, {}, FALSE)
       ELSE /\ connOut' = ConnReply("UpdateClient", via, id, {}, TRUE)
            /\ UNCHANGED records
    /\ UNCHANGED besideStore

\* LocalConnector.DeleteClient: GetInbound for the ownership, then the delete.
DeleteClient(via, id, email) ==
    /\ IF Owned(records, id, via)
       THEN /\ records' = InboundService_DelInboundClient(records, id, email)
            /\ connOut' = ConnReply("DeleteClient", via, id, {}, FALSE)
       ELSE /\ connOut' = ConnReply("DeleteClient", via, id, {}, TRUE)
            /\ UNCHANGED records
    /\ UNCHANGED besideStore

\* LocalConnector.ResetClientTraffic: GetInbound for the ownership, then the
\* reset.
ResetClientTraffic(via, id, email) ==
    /\ IF Owned(records, id, via)
       THEN /\ records' = InboundService_ResetClientTraffic(records, id)
            /\ connOut' = ConnReply("ResetClientTraffic", via, id, {}, FALSE)
       ELSE /\ connOut' = ConnReply("ResetClientTraffic", via, id, {}, TRUE)
            /\ UNCHANGED records
    /\ UNCHANGED besideStore

Connector ==
    \/ \E via \in Ids : ListInbounds(via)
    \/ \E via \in Ids, id \in InboundIds : GetInbound(via, id)
    \/ \E via \in Ids, id \in InboundIds, st \in InSettings, u \in BOOLEAN :
            ConnAddInbound(via, id, st, u)
    \/ \E via \in Ids, id \in InboundIds, st \in InSettings : UpdateInbound(via, id, st)
    \/ \E via \in Ids, id \in InboundIds : ConnDeleteInbound(via, id)
    \/ \E via \in Ids, id \in InboundIds, e \in Emails : AddClient(via, id, e)
    \/ \E via \in Ids, id \in InboundIds, e \in Emails, st \in InSettings :
            UpdateClient(via, id, e, st)
    \/ \E via \in Ids, id \in InboundIds, e \in Emails : DeleteClient(via, id, e)
    \/ \E via \in Ids, id \in InboundIds, e \in Emails :
            ResetClientTraffic(via, id, e)

\* ---------------------------------------------------------- RemoteConnector

\* Block types splitPEMBundle takes for a private key.
KeyTypes == {"PRIVATE KEY", "RSA PRIVATE KEY", "EC PRIVATE KEY", "ED25519 PRIVATE KEY"}

\* pem.Decode over the auth data as text: the blocks of a pasted bundle; a
\* JSON text holds its PEM members escaped, and no block is found in it.
PemDecode(ad) == IF ad.json THEN <<>> ELSE ad.blocks

\* The auth data as text, for what only asks whether it is empty.
RawText(ad) ==
    IF ad.json THEN "{json}" ELSE IF ad.blocks # <<>> THEN "{pem}" ELSE ad.text

RECURSIVE SplitBlocks(_, _)
\* splitPEMBundle, the loop: the first CERTIFICATE block is the client
\* certificate, every later one goes to the CA; the last key block is the key.
SplitBlocks(rest, acc) ==
    IF rest = <<>> THEN acc
    ELSE LET b == Head(rest)
         IN SplitBlocks(Tail(rest),
                IF b.type = "CERTIFICATE"
                THEN IF acc.certPEM = <<>>
                     THEN [acc EXCEPT !.certPEM = <<b>>]
                     ELSE [acc EXCEPT !.caPEM = @ \o <<b>>]
                ELSE IF b.type \in KeyTypes
                THEN [acc EXCEPT !.keyPEM = <<b>>]
                ELSE acc)

splitPEMBundle(data) ==
    SplitBlocks(data, [certPEM |-> <<>>, keyPEM |-> <<>>, caPEM |-> <<>>])

\* Whether a private key belongs to a certificate.
KeyMatches(certBody, keyBody) == certBody = "clientCert" /\ keyBody = "clientKey"

\* tls.X509KeyPair: the first certificate block, the first key block, and
\* the check that the key is the certificate's.
X509KeyPair(certPEM, keyPEM) ==
    LET certs == SelectSeq(certPEM, LAMBDA b : b.type = "CERTIFICATE")
        keys == SelectSeq(keyPEM, LAMBDA b : b.type \in KeyTypes)
    IN IF certs = <<>> \/ keys = <<>> THEN [ok |-> FALSE, cert |-> "", key |-> ""]
       ELSE IF ~KeyMatches(certs[1].body, keys[1].body)
       THEN [ok |-> FALSE, cert |-> "", key |-> ""]
       ELSE [ok |-> TRUE, cert |-> certs[1].body, key |-> keys[1].body]

\* CertPool.AppendCertsFromPEM: the certificates of the text.
AppendCertsFromPEM(pemText) ==
    {pemText[i].body : i \in {j \in DOMAIN pemText : pemText[j].type = "CERTIFICATE"}}

NoKeyPair == [ok |-> TRUE, cert |-> "", key |-> ""]
ClientResult(err, kp, roots) ==
    [err |-> err, cert |-> IF err = "" THEN kp.cert ELSE "",
     key |-> IF err = "" THEN kp.key ELSE "",
     roots |-> IF err = "" THEN roots ELSE {}, token |-> ""]

\* tls.LoadX509KeyPair of the two files: both are read, then X509KeyPair.
LoadKeyPairFiles(certFile, keyFile) ==
    IF ~ReadFile(certFile).ok \/ ~ReadFile(keyFile).ok
    THEN [ok |-> FALSE, cert |-> "", key |-> ""]
    ELSE X509KeyPair(ReadFile(certFile).blocks, ReadFile(keyFile).blocks)

\* createMTLSClient: the inlined PEM members first, then the file paths for
\* what is still missing, then the pasted bundle when the certificate or
\* the CA is still missing. A nil CA pool is the empty set of roots.
createMTLSClient(ad) ==
    LET inl == IF ad.certPem # <<>> /\ ad.keyPem # <<>>
               THEN X509KeyPair(ad.certPem, ad.keyPem) ELSE NoKeyPair
        pool0 == IF ad.caPem # <<>> THEN AppendCertsFromPEM(ad.caPem) ELSE {}
        tryFiles == inl.cert = "" /\ ad.certFile # "" /\ ad.keyFile # ""
        loaded == IF tryFiles THEN LoadKeyPairFiles(ad.certFile, ad.keyFile) ELSE inl
        tryCAFile == pool0 = {} /\ ad.caFile # ""
        pool1 == IF tryCAFile /\ ReadFile(ad.caFile).ok
                 THEN AppendCertsFromPEM(ReadFile(ad.caFile).blocks) ELSE pool0
        sp == splitPEMBundle(PemDecode(ad))
        tryBundle == loaded.cert = "" \/ pool1 = {}
        pasted == IF tryBundle /\ sp.certPEM # <<>> /\ sp.keyPEM # <<>>
                  THEN X509KeyPair(sp.certPEM, sp.keyPEM) ELSE loaded
        pool2 == IF tryBundle /\ sp.caPEM # <<>>
                 THEN AppendCertsFromPEM(sp.caPEM) ELSE pool1
    IN IF ~inl.ok
       THEN ClientResult("failed to parse inlined client certificate", inl, {})
       ELSE IF ad.caPem # <<>> /\ pool0 = {}
       THEN ClientResult("failed to parse inlined CA certificate", inl, {})
       ELSE IF ~loaded.ok
       THEN ClientResult("failed to load client certificate", loaded, {})
       ELSE IF tryCAFile /\ ~ReadFile(ad.caFile).ok
       THEN ClientResult("failed to load CA certificate", loaded, {})
       ELSE IF tryCAFile /\ pool1 = {}
       THEN ClientResult("failed to parse CA certificate", loaded, {})
       ELSE IF ~pasted.ok
       THEN ClientResult("failed to parse pasted client cert/key", pasted, {})
       ELSE IF tryBundle /\ sp.caPEM # <<>> /\ pool2 = {}
       THEN ClientResult("failed to parse pasted CA certificate", pasted, {})
       ELSE IF pasted.cert = ""
       THEN ClientResult("invalid mTLS auth data: client cert/key not provided",
                         pasted, {})
       ELSE IF pool2 = {}
       THEN ClientResult("invalid mTLS auth data: CA certificate not provided",
                         pasted, {})
       ELSE ClientResult("", pasted, pool2)

\* createJWTClient: the token member of the JSON, else the whole auth data.
createJWTClient(ad) ==
    LET token == IF ad.json /\ ad.token # "" THEN ad.token ELSE RawText(ad)
    IN IF token = ""
       THEN [ClientResult("JWT token is required in auth data", NoKeyPair, {})
                EXCEPT !.token = ""]
       ELSE [ClientResult("", NoKeyPair, {}) EXCEPT !.token = token]

\* A NewRemoteConnector that returns the connector whatever its client came
\* to, leaving the failure to the first request.
NewRemoteConnector_Lazy(authType, ad) ==
    /\ rc' = [[authType |-> authType, authData |-> ad] @@
                (IF authType = "mtls" THEN createMTLSClient(ad)
                 ELSE IF authType = "jwt" THEN createJWTClient(ad)
                 ELSE ClientResult("unsupported auth type", NoKeyPair, {}))
              EXCEPT !.err = ""]
    /\ UNCHANGED <<rcOut, sent>>
    /\ UNCHANGED besideRemote

\* NewRemoteConnector
NewRemoteConnector(authType, ad) ==
    /\ rc' = [authType |-> authType, authData |-> ad] @@
             (IF authType = "mtls" THEN createMTLSClient(ad)
              ELSE IF authType = "jwt" THEN createJWTClient(ad)
              ELSE ClientResult("unsupported auth type", NoKeyPair, {}))
    /\ UNCHANGED <<rcOut, sent>>
    /\ UNCHANGED besideRemote

\* A doRequest that reports a remote fault the way it reports a transport
\* failure.
RemoteFaultError_AsTransport(code, message) == <<"request failed: ", code>>

\* doRequest, line 272: the error for a non-success envelope with an error
\* object.
RemoteFaultError(code, message) == <<"agent error: ", code, " - ", message>>

\* doRequest: the result for what the round trip came to. An error text is
\* the sequence of the pieces it is formatted from.
doRequest(trip) ==
    IF trip.kind = "doError"
    THEN [ok |-> FALSE, err |-> <<"request failed: ", trip.cause>>]
    ELSE IF trip.kind = "readError"
    THEN [ok |-> FALSE, err |-> <<"failed to read response: ", trip.cause>>]
    ELSE IF trip.kind = "notJson"
    THEN [ok |-> FALSE, err |-> <<"failed to parse response: ", "invalid character">>]
    ELSE IF trip.success THEN [ok |-> TRUE, err |-> <<>>]
    ELSE IF trip.hasError
    THEN [ok |-> FALSE, err |-> RemoteFaultError(trip.code, trip.message)]
    ELSE [ok |-> FALSE, err |-> <<"agent request failed">>]

\* A call of a connector operation: doRequest on the connector that was
\* constructed.
DoRequest(trip) ==
    /\ rc.err = ""
    /\ rcOut' = [trip |-> trip] @@ doRequest(trip)
    /\ UNCHANGED <<rc, sent>>
    /\ UNCHANGED besideRemote

\* The router's match of a request: the method is the route's, the path has
\* the pattern's number of segments, and each segment is the pattern's or
\* stands for a parameter.
Matches(r, method, path) ==
    /\ r.method = method
    /\ Len(r.pattern) = Len(path)
    /\ \A i \in 1..Len(path) :
          r.pattern[i] = path[i] \/ (r.pattern[i] \in Params /\ path[i] # "")

\* The route that serves a request, NoRoute when none is registered for it.
Resolve(method, path) ==
    IF \E r \in RegisteredRoutes : Matches(r, method, path)
    THEN CHOOSE r \in RegisteredRoutes : Matches(r, method, path)
    ELSE NoRoute

\* A contract operation of the connector that was constructed: its request
\* reaches the router of the node.
ContractCall(q) ==
    /\ rc.err = ""
    /\ sent' = [op |-> q.op, method |-> q.method, path |-> q.path,
                route |-> Resolve(q.method, q.path)]
    /\ UNCHANGED <<rc, rcOut>>
    /\ UNCHANGED besideRemote

Remote ==
    \/ \E a \in AuthKinds, ad \in AuthDatas : NewRemoteConnector(a, ad)
    \/ \E t \in RoundTrips : DoRequest(t)
    \/ \E q \in ContractRequests : ContractCall(q)

\* --------------------------------------------------- runMultiserverMigration

\* A migration that does not look at the seeder history.
AlreadyMigrated_Never(history) == FALSE

\* Lines 118-123: the history has a MultiServerMigration row.
AlreadyMigrated(history) == history > 0

\* The run ends with the error of the statement that failed.
MigrationFails ==
    /\ mrun.pc \in {"seed", "alter", "update", "index", "record"}
    /\ mrun.pc = "alter" => ~mdb.tables[mrun.t].hasColumn
    /\ mrun' = [mrun EXCEPT !.pc = "failed"]
    /\ UNCHANGED <<mdb, mdb0>>
    /\ UNCHANGED besideMigration

\* InitDB calls runMultiserverMigration: the history is read, and the
\* servers are counted.
MigrationStart ==
    /\ mrun.pc \in {"off", "failed", "done"}
    /\ mrun.runs < MaxRuns
    /\ mrun' = [pc |-> IF AlreadyMigrated(mdb.history) THEN "done"
                       ELSE IF mdb.servers = {} THEN "seed" ELSE "alter",
                t |-> 1, runs |-> mrun.runs + 1]
    /\ UNCHANGED <<mdb, mdb0>>
    /\ UNCHANGED besideMigration

\* Step 1: db.Create(defaultServer).
MigrationSeed ==
    /\ mrun.pc = "seed"
    /\ mdb' = [mdb EXCEPT !.servers = @ \cup {1}, !.seeded = @ + 1]
    /\ mrun' = [mrun EXCEPT !.pc = "alter"]
    /\ UNCHANGED mdb0
    /\ UNCHANGED besideMigration

\* Step 2, for the table the loop is at: ALTER TABLE ... ADD COLUMN server_id
\* when PRAGMA table_info does not list the column.
MigrationAlter ==
    /\ mrun.pc = "alter"
    /\ mdb' = [mdb EXCEPT !.tables[mrun.t].hasColumn = TRUE]
    /\ mrun' = [mrun EXCEPT !.pc = "update"]
    /\ UNCHANGED mdb0
    /\ UNCHANGED besideMigration

\* Step 3: UPDATE ... SET server_id = 1 WHERE server_id IS NULL; the loop
\* goes on to the next table.
MigrationUpdate ==
    /\ mrun.pc = "update"
    /\ mdb' = [mdb EXCEPT !.tables[mrun.t] =
                    TableState(@.hasColumn, 0, @.one + @.null)]
    /\ mrun' = IF mrun.t < Len(TablesToMigrate)
               THEN [mrun EXCEPT !.pc = "alter", !.t = @ + 1]
               ELSE [mrun EXCEPT !.pc = "index", !.t = 1]
    /\ UNCHANGED mdb0
    /\ UNCHANGED besideMigration

\* Step 4: CREATE INDEX IF NOT EXISTS, one table after the other.
MigrationIndex ==
    /\ mrun.pc = "index"
    /\ mdb' = [mdb EXCEPT !.indexes = @ \cup {mrun.t}]
    /\ mrun' = IF mrun.t < Len(TablesToMigrate)
               THEN [mrun EXCEPT !.t = @ + 1]
               ELSE [mrun EXCEPT !.pc = "record", !.t = 1]
    /\ UNCHANGED mdb0
    /\ UNCHANGED besideMigration

\* Step 5: the MultiServerMigration row of history_of_seeders.
MigrationRecord ==
    /\ mrun.pc = "record"
    /\ mdb' = [mdb EXCEPT !.history = @ + 1]
    /\ mrun' = [mrun EXCEPT !.pc = "done"]
    /\ UNCHANGED mdb0
    /\ UNCHANGED besideMigration

Migration ==
    \/ MigrationStart
    \/ MigrationSeed
    \/ MigrationAlter
    \/ MigrationUpdate
    \/ MigrationIndex
    \/ MigrationRecord
    \/ MigrationFails

\* ------------------------------------------- RateLimiter on a finer clock

\* allow, lines 253-254, for a limit and a clock given.
tokensToAddAt(limit, perMinute, elapsed) == (elapsed * limit) \div perMinute

\* allow, lines 256-262.
RefillAt(limit, perMinute, b, t) ==
    LET add == tokensToAddAt(limit, perMinute, t - b.lastRefill)
    IN IF add > 0
       THEN [b EXCEPT !.tokens = IF b.tokens + add > limit
                                 THEN limit ELSE b.tokens + add,
                      !.lastRefill = t]
       ELSE b

\* allow, lines 237-271.
allowAt(limit, perMinute, bs, key, t) ==
    LET b0 == IF bs[key].exists THEN bs[key]
              ELSE [exists |-> TRUE, tokens |-> limit, lastRefill |-> t]
        b1 == RefillAt(limit, perMinute, b0, t)
    IN IF b1.tokens > 0
       THEN [ok |-> TRUE, buckets |-> [bs EXCEPT ![key] = [b1 EXCEPT !.tokens = @ - 1]]]
       ELSE [ok |-> FALSE, buckets |-> [bs EXCEPT ![key] = b1]]

\* The times of a history that are less than a minute before t.
WithinMinute(times, t) ==
    SelectSeq(times, LAMBDA u : t - u < FineTicksPerMinute)

\* RateLimiter.Middleware for a request of caller ip.
LimiterRequest(ip) ==
    /\ LET a == allowAt(lim.limit, FineTicksPerMinute, lim.buckets, ip, lim.now)
           k == allowAt(lim.limit, FineTicksPerMinute, lim.kept, ip, lim.now)
       IN lim' = [lim EXCEPT
                    !.buckets = a.buckets,
                    !.admitted[ip] = IF a.ok THEN Append(@, lim.now) ELSE @,
                    !.kept = k.buckets,
                    !.last = [ok |-> a.ok, kept |-> k.ok,
                              fresh |-> lim.kept[ip].exists
                                        /\ ~lim.buckets[ip].exists]]
    /\ UNCHANGED besideLimiter

\* A cleanup that removes every bucket not refilled at this very tick.
LimiterCleanup_Eager ==
    /\ lim.now > 0
    /\ lim.now % (CleanupEveryMinutes * FineTicksPerMinute) = 0
    /\ lim' = [lim EXCEPT !.buckets = [k \in Callers |->
            IF lim.buckets[k].exists /\ lim.now - lim.buckets[k].lastRefill > 0
            THEN NoBucket ELSE lim.buckets[k]]]
    /\ UNCHANGED besideLimiter

\* RateLimiter.cleanup, on a tick of its ticker.
LimiterCleanup ==
    /\ lim.now > 0
    /\ lim.now % (CleanupEveryMinutes * FineTicksPerMinute) = 0
    /\ lim' = [lim EXCEPT !.buckets = [k \in Callers |->
            IF lim.buckets[k].exists
               /\ lim.now - lim.buckets[k].lastRefill
                     > BucketIdleMinutes * FineTicksPerMinute
            THEN NoBucket ELSE lim.buckets[k]]]
    /\ UNCHANGED besideLimiter

\* Time passes.
LimiterTick ==
    /\ lim.now < MaxFineTicks
    /\ lim' = [lim EXCEPT
                  !.now = @ + 1,
                  !.admitted = [k \in Callers |-> WithinMinute(lim.admitted[k], lim.now + 1)]]
    /\ UNCHANGED besideLimiter

Limiter ==
    \/ \E ip \in Callers : LimiterRequest(ip)
    \/ LimiterCleanup
    \/ LimiterTick

\* ------------------------------------------------------- loadHealthConfig

\* The number a text of digits stands for.
RECURSIVE DigitsValue(_)
DigitsValue(t) ==
    IF t = <<>> THEN 0
    ELSE 10 * DigitsValue(SubSeq(t, 1, Len(t) - 1)) + DigitValue(t[Len(t)])

AllDigits(t) == t # <<>> /\ \A k \in DOMAIN t : t[k] \in {Digits[d] : d \in DOMAIN Digits}

\* strconv.Atoi: an optional sign and at least one digit, anything else is
\* an error.
Atoi(t) ==
    IF AllDigits(t) THEN [ok |-> TRUE, n |-> DigitsValue(t)]
    ELSE IF t # <<>> /\ Head(t) = "-" /\ AllDigits(Tail(t))
    THEN [ok |-> TRUE, n |-> 0 - DigitsValue(Tail(t))]
    ELSE [ok |-> FALSE, n |-> 0]

\* loadHealthConfig, lines 33-37: the pool size.
LoadMaxConcurrency(val) ==
    IF val # <<>> /\ Atoi(val).ok /\ Atoi(val).n > 0
                 /\ Atoi(val).n <= HardMaxConcurrency
    THEN Atoi(val).n
    ELSE DefaultMaxConcurrency

\* loadHealthConfig, lines 38-42: the timeout of a check, in seconds.
LoadCheckTimeout(val) ==
    IF val # <<>> /\ Atoi(val).ok /\ Atoi(val).n > 0
    THEN Atoi(val).n
    ELSE DefaultCheckTimeout

\* NewServerHealthJob: config is loadHealthConfig().
NewServerHealthJob ==
    /\ healthCfg = Unloaded
    /\ healthCfg' = [maxConcurrency |-> LoadMaxConcurrency(env.maxConcurrency),
                     checkTimeout |-> LoadCheckTimeout(env.timeoutSec)]
    /\ UNCHANGED env
    /\ UNCHANGED besideConfig

\* ------------------------------------------------------------------ GetLogs

\* The segments of a path, split at the separators.
RECURSIVE SplitPath(_)
SplitPath(p) ==
    IF p = <<>> THEN << <<>> >>
    ELSE LET r == SplitPath(Tail(p))
         IN IF Head(p) = "/" THEN << <<>> >> \o r
            ELSE << <<Head(p)>> \o Head(r) >> \o Tail(r)

\* filepath.Clean on the segments: empty and "." segments go, ".." takes
\* the segment before it, or goes at the root, or stays in a relative path.
RECURSIVE CleanSegs(_, _, _)
CleanSegs(segs, rooted, out) ==
    IF segs = <<>> THEN out
    ELSE LET seg == Head(segs)
         IN IF seg = <<>> \/ seg = <<".">>
            THEN CleanSegs(Tail(segs), rooted, out)
            ELSE IF seg = <<"..">>
            THEN IF out # <<>> /\ out[Len(out)] # <<"..">>
                 THEN CleanSegs(Tail(segs), rooted, SubSeq(out, 1, Len(out) - 1))
                 ELSE IF rooted THEN CleanSegs(Tail(segs), rooted, out)
                 ELSE CleanSegs(Tail(segs), rooted, Append(out, seg))
            ELSE CleanSegs(Tail(segs), rooted, Append(out, seg))

RECURSIVE JoinPath(_)
JoinPath(segs) ==
    IF segs = <<>> THEN <<>>
    ELSE IF Len(segs) = 1 THEN segs[1]
    ELSE segs[1] \o <<"/">> \o JoinPath(Tail(segs))

\* filepath.Clean
Clean(p) ==
    IF p = <<>> THEN <<".">>
    ELSE LET rooted == Head(p) = "/"
             segs == CleanSegs(SplitPath(p), rooted, <<>>)
         IN IF rooted THEN <<"/">> \o JoinPath(segs)
            ELSE IF segs = <<>> THEN <<".">>
            ELSE JoinPath(segs)

\* strings.HasPrefix
HasPrefix(str, prefix) ==
    Len(str) >= Len(prefix) /\ SubSeq(str, 1, Len(prefix)) = prefix

\* readLogFile, lines 475-481: the path that is checked and read.
LogFile(envPath) == Clean(IF envPath = <<>> THEN DefaultLogFile ELSE envPath)

\* readLogFile, lines 492-499: the allow-list check.
Allowed(logFile) ==
    \E k \in DOMAIN AllowedPaths : HasPrefix(logFile, Clean(AllowedPaths[k]))

\* A GetLogs that does not cap the count.
LogCount_Uncapped(query) ==
    LET count == IF query # <<>> /\ Atoi(query).ok THEN Atoi(query).n
                 ELSE DefaultLogCount
    IN IF count < 1 THEN SmallLogCount ELSE count

\* GetLogs, lines 446-459: the line count for a count parameter.
LogCount(query) ==
    LET count == IF query # <<>> /\ Atoi(query).ok THEN Atoi(query).n
                 ELSE DefaultLogCount
    IN IF count > MaxLogCount THEN MaxLogCount
       ELSE IF count < 1 THEN SmallLogCount
       ELSE count

Min(a, b) == IF a < b THEN a ELSE b

\* readLogFile after the allow-list check, and readLogFileDirect: the number
\* of lines returned, and whether the file was read. The output of tail is
\* trimmed and split, which gives one empty line for no output; the file
\* read directly is split at its newlines, the text after the last one
\* being an element too.
ReadLines(fs, count) ==
    IF fs.kind = "missing" THEN [err |-> FALSE, lines |-> 1, read |-> FALSE]
    ELSE IF fs.kind = "tail"
    THEN [err |-> FALSE,
          lines |-> IF Min(count, fs.lines) = 0 THEN 1 ELSE Min(count, fs.lines),
          read |-> TRUE]
    ELSE IF fs.kind = "direct"
    THEN [err |-> FALSE, lines |-> Min(count, fs.lines + 1), read |-> TRUE]
    ELSE [err |-> TRUE, lines |-> 0, read |-> FALSE]

\* AgentHandlers.GetLogs. The handler keeps no state from one request to
\* the next: one request is followed.
GetLogs(query) ==
    /\ logResp = NoLogResp
    /\ LET count == LogCount(query)
           logFile == LogFile(logEnv)
           r == ReadLines(logFs, count)
       IN logResp' =
            IF ~Allowed(logFile) \/ r.err
            THEN [query |-> query, count |-> count, code |-> 500,
                  error |-> "LOG_READ_ERROR", message |-> "Unable to read logs",
                  lines |-> 0, read |-> <<>>]
            ELSE [query |-> query, count |-> count, code |-> 200,
                  error |-> "", message |-> "",
                  lines |-> r.lines, read |-> IF r.read THEN logFile ELSE <<>>]
    /\ UNCHANGED <<logEnv, logFs>>
    /\ UNCHANGED besideLogs

Logs == \E query \in CountTexts : GetLogs(query)

\* ---------------------------------------------------------- specifications

Next == Admin \/ Monitor

\* The controller: administrative requests and monitor cycles interleaved.
Spec == Init /\ [][Next]_vars

\* Monitor cycles over a fixed fleet, every goroutine scheduled and every
\* health check returning.
SpecMonitorFair == InitFleet /\ [][Monitor]_vars /\ MonitorFairness

\* The registry alone, over longer runs of administrative requests.
SpecRegistry == InitRegistry /\ [][Admin]_vars

InitAgent ==
    /\ InitWith(0)
    /\ \E cfg \in AgentConfigs : AgentInit(cfg)
    /\ StoreInit
    /\ RemoteInit
    /\ MigrationIdle
    /\ ConfigIdle
    /\ LimiterInit
    /\ LogsIdle
    /\ ViewsIdle
    /\ RestoreIdle

\* The agent's HTTP server alone, under each configuration.
SpecAgent == InitAgent /\ [][Agent]_vars

InitStore ==
    /\ InitWith(0)
    /\ AgentInit([authType |-> "mtls", caFile |-> "cert", leaf |-> TRUE])
    /\ StoreInit
    /\ RemoteInit
    /\ MigrationIdle
    /\ ConfigIdle
    /\ LimiterInit
    /\ LogsIdle
    /\ ViewsIdle
    /\ RestoreIdle

\* The executors of the nodes working on the shared inbounds table.
SpecStore == InitStore /\ [][Connector]_vars

\* Remote connectors constructed from auth data, and their requests.
SpecRemote == InitStore /\ [][Remote]_vars

InitMigration ==
    /\ InitWith(0)
    /\ AgentInit([authType |-> "mtls", caFile |-> "cert", leaf |-> TRUE])
    /\ StoreInit
    /\ RemoteInit
    /\ mdb \in LegacyDatabases
    /\ mdb0 = mdb
    /\ mrun = NoRun
    /\ ConfigIdle
    /\ LimiterInit
    /\ LogsIdle
    /\ ViewsIdle
    /\ RestoreIdle

\* LoadConfig, line 63: the default of AGENT_RATE_LIMIT.
DefaultRateLimit == 100

\* ----------------------------------------------------- aggregatedStatus

\* aggregatedStatus, lines 619-628 and 737-741: GetAllServers, the total,
\* the local node from lastStatus, which is nil until the first status
\* refresh; then one goroutine for every row.
aggregatedStatusBegin(hasLastStatus) ==
    /\ agg.pc = "idle"
    /\ agg' = [pc |-> "collecting",
               total |-> Cardinality(DOMAIN servers) + 1,
               online |-> IF hasLastStatus THEN 1 ELSE 0,
               offline |-> IF hasLastStatus THEN 0 ELSE 1,
               rows |-> servers,
               todo |-> DOMAIN servers]
    /\ UNCHANGED view
    /\ UNCHANGED besideViews

\* aggregatedStatus, lines 748-787: the goroutine of row i. The pool of 10
\* slots is larger than the registry, so no goroutine waits for a slot.
\* GetSystemStats of a LocalConnector returns no error.
aggregatedStatusCollect(i) ==
    /\ agg.pc = "collecting"
    /\ i \in agg.todo
    /\ agg' = [agg EXCEPT
            !.todo = @ \ {i},
            !.offline = IF i # 1 /\ (~agg.rows[i].enabled
                                     \/ GetConnector(servers, i) = "error")
                        THEN @ + 1 ELSE @,
            !.online = IF i # 1 /\ agg.rows[i].enabled
                                /\ GetConnector(servers, i) # "error"
                       THEN @ + 1 ELSE @]
    /\ UNCHANGED view
    /\ UNCHANGED besideViews

\* aggregatedStatus, lines 790-867: wg.Wait returns and the answer is sent.
aggregatedStatusEnd ==
    /\ agg.pc = "collecting"
    /\ agg.todo = {}
    /\ agg' = [agg EXCEPT !.pc = "done"]
    /\ UNCHANGED view
    /\ UNCHANGED besideViews

\* --------------------------------------------------- GetDefaultServerId

\* ServerManagementService.IsSingleServerMode: exactly one enabled row.
IsSingleServerMode(db) == Cardinality(GetEnabledServers(db)) = 1

\* The first of the rows in the order of their ids.
FirstId(S) == CHOOSE i \in S : \A j \in S : i <= j

\* ServerManagementService.GetDefaultServerId
GetDefaultServerId(db) ==
    IF IsSingleServerMode(db) THEN [id |-> 1, err |-> ""]
    ELSE IF GetEnabledServers(db) = {}
    THEN [id |-> 0, err |-> "no enabled servers found"]
    ELSE [id |-> FirstId(GetEnabledServers(db)), err |-> ""]

\* A request that asks for the default node. The read-only requests keep
\* no state: one of them is followed in a behaviour.
DefaultServerIdRequest ==
    /\ view = NoView
    /\ view' = [NoView EXCEPT !.op = "GetDefaultServerId",
                              !.id = GetDefaultServerId(servers).id,
                              !.err = GetDefaultServerId(servers).err]
    /\ UNCHANGED agg
    /\ UNCHANGED besideViews

\* ------------------------------------------------------------ ListServers

\* gin's DefaultQuery: the text of the parameter, the default when the URL
\* does not carry it.
DefaultQuery(param, default) == IF param.present THEN param.text ELSE default

\* The ids of S in ascending order (GetAllServers orders by id).
RECURSIVE OrderById(_)
OrderById(S) == IF S = {} THEN <<>> ELSE <<FirstId(S)>> \o OrderById(S \ {FirstId(S)})

\* ListServers, lines 83-93: page and limit, the errors of Atoi dropped.
PageOf(param) ==
    IF Atoi(DefaultQuery(param, DefaultPage)).n < 1 THEN 1
    ELSE Atoi(DefaultQuery(param, DefaultPage)).n
LimitOf(param) ==
    IF Atoi(DefaultQuery(param, DefaultLimit)).n > MaxPageLimit THEN MaxPageLimit
    ELSE Atoi(DefaultQuery(param, DefaultLimit)).n

\* ListServers, lines 109-113: the status filter.
Filtered(db, status) ==
    OrderById({i \in DOMAIN db : status = "" \/ db[i].status = status})

\* ListServers, lines 142-153: the window; the slice expression panics
\* unless 0 <= start <= end <= len.
Paginate(filtered, page, limit) ==
    LET start0 == (page - 1) * limit
        end0 == start0 + limit
        start == IF start0 > Len(filtered) THEN Len(filtered) ELSE start0
        end == IF end0 > Len(filtered) THEN Len(filtered) ELSE end0
    IN IF start < 0 \/ end < start
       THEN [fault |-> TRUE, window |-> <<>>]
       ELSE [fault |-> FALSE, window |-> SubSeq(filtered, start + 1, end)]

\* ServerManagementController.ListServers
ListServers(page, limit, status) ==
    /\ view = NoView
    /\ LET filtered == Filtered(servers, status)
           p == Paginate(filtered, PageOf(page), LimitOf(limit))
       IN view' = [NoView EXCEPT !.op = "ListServers",
                                 !.page = PageOf(page),
                                 !.limit = LimitOf(limit),
                                 !.total = IF p.fault THEN 0 ELSE Len(filtered),
                                 !.window = p.window,
                                 !.fault = p.fault]
    /\ UNCHANGED agg
    /\ UNCHANGED besideViews

Views ==
    \/ \E has \in BOOLEAN : aggregatedStatusBegin(has)
    \/ \E i \in Ids : aggregatedStatusCollect(i)
    \/ aggregatedStatusEnd
    \/ DefaultServerIdRequest
    \/ \E page \in PageParams, limit \in LimitParams, status \in {"", "online"} :
          ListServers(page, limit, status)

\* -------------------------------------------------------- RestoreDatabase

\* database.ValidateSQLiteDB: the error for a file that is not there or that
\* fails the integrity check, "" for a sound database.
ValidateSQLiteDB(content) ==
    IF content = "none" THEN "no such file"
    ELSE IF content \in {"corrupt", "partial"} THEN "sqlite integrity check failed"
    ELSE ""

\* RestoreDatabase, lines 466-470: os.WriteFile of the data to the path with
\* the suffix .backup. It succeeds, or fails before it opened the file, or
\* fails after it wrote a part.
RestoreWrite(r, data, outcome) ==
    /\ restore[r].pc = "idle"
    /\ backup' = IF outcome = "ok" THEN data
                 ELSE IF outcome = "partial" THEN "partial" ELSE backup
    /\ restore' = [restore EXCEPT ![r] =
            [NoRestore EXCEPT
                !.data = data,
                !.pc = IF outcome = "ok" THEN "written" ELSE "failed",
                !.err = IF outcome = "ok" THEN "" ELSE "failed to write backup"]]
    /\ UNCHANGED live
    /\ UNCHANGED besideRestore

\* RestoreDatabase, lines 472-475: the validation of the file at that path.
RestoreValidate(r) ==
    /\ restore[r].pc = "written"
    /\ restore' = [restore EXCEPT
            ![r].pc = IF ValidateSQLiteDB(backup) = "" THEN "validated" ELSE "failed",
            ![r].err = IF ValidateSQLiteDB(backup) = "" THEN ""
                       ELSE "invalid database backup"]
    /\ UNCHANGED <<live, backup>>
    /\ UNCHANGED besideRestore

\* RestoreDatabase, lines 477-482: os.Rename of that path to the live path.
\* A rename that fails (the source is gone, or the system refuses) changes
\* neither file.
RestoreRename(r, denied) ==
    /\ restore[r].pc = "validated"
    /\ IF denied \/ backup = "none"
       THEN /\ restore' = [restore EXCEPT ![r].pc = "failed",
                                          ![r].err = "failed to restore database"]
            /\ UNCHANGED <<live, backup>>
       ELSE /\ live' = backup
            /\ backup' = "none"
            /\ restore' = [restore EXCEPT ![r].pc = "done", ![r].replaced = TRUE]
    /\ UNCHANGED besideRestore

Restore ==
    \/ \E r \in Restorers, data \in Uploads, outcome \in {"ok", "refused", "partial"} :
          RestoreWrite(r, data, outcome)
    \/ \E r \in Restorers : RestoreValidate(r)
    \/ \E r \in Restorers, denied \in BOOLEAN : RestoreRename(r, denied)

\* getEnvInt: the number in the variable, the default when the variable is
\* not set or is not a number.
getEnvInt(value, defaultValue) ==
    IF value # <<>> /\ Atoi(value).ok THEN Atoi(value).n ELSE defaultValue

\* Values of AGENT_RATE_LIMIT.
RateLimitTexts == {<<"-", "1">>, <<"0">>, <<"1">>, <<"2">>}

InitLimits ==
    /\ InitWith(0)
    /\ AgentInit([authType |-> "mtls", caFile |-> "cert", leaf |-> TRUE])
    /\ StoreInit
    /\ RemoteInit
    /\ MigrationIdle
    /\ ConfigIdle
    /\ LogsIdle
    /\ ViewsIdle
    /\ RestoreIdle
    /\ \E text \in RateLimitTexts :
          lim = [now |-> 0, limit |-> getEnvInt(text, DefaultRateLimit),
                 buckets |-> [k \in Callers |-> NoBucket],
                 admitted |-> [k \in Callers |-> <<>>],
                 kept |-> [k \in Callers |-> NoBucket],
                 last |-> NoRequest]

\* The rate limiter of an agent under any AGENT_RATE_LIMIT.
SpecLimits == InitLimits /\ [][Limiter]_vars

InitLogs ==
    /\ InitWith(0)
    /\ AgentInit([authType |-> "mtls", caFile |-> "cert", leaf |-> TRUE])
    /\ StoreInit
    /\ RemoteInit
    /\ MigrationIdle
    /\ ConfigIdle
    /\ LimiterInit
    /\ logEnv \in LogPaths
    /\ logFs \in LogFiles
    /\ logResp = NoLogResp
    /\ ViewsIdle
    /\ RestoreIdle

\* The agent's log endpoint, under any log path and any log file.
SpecLogs == InitLogs /\ [][Logs]_vars

InitViews ==
    /\ servers \in Registries
    /\ inbounds = [i \in Ids |-> 0]
    /\ failures = [i \in Ids |-> 0]
    /\ now = 0
    /\ cycle = [c \in Cycles |-> IdleCycle]
    /\ task = [c \in Cycles |-> [i \in Ids |-> NoTask]]
    /\ delPending = {}
    /\ budget = 0
    /\ reply = NoReply
    /\ streak = [i \in Ids |-> 0]
    /\ refused = {}
    /\ AgentInit([authType |-> "mtls", caFile |-> "cert", leaf |-> TRUE])
    /\ StoreInit
    /\ RemoteInit
    /\ MigrationIdle
    /\ ConfigIdle
    /\ LimiterInit
    /\ LogsIdle
    /\ RestoreIdle
    /\ agg = NoAgg
    /\ view = NoView

\* The read-only requests of the controller, over any registry.
SpecViews == InitViews /\ [][Views]_vars

InitRestore ==
    /\ InitWith(0)
    /\ AgentInit([authType |-> "mtls", caFile |-> "cert", leaf |-> TRUE])
    /\ StoreInit
    /\ RemoteInit
    /\ MigrationIdle
    /\ ConfigIdle
    /\ LimiterInit
    /\ LogsIdle
    /\ ViewsIdle
    /\ live = "db0"
    /\ backup \in {"none", "sound", "corrupt"}
    /\ restore = [r \in Restorers |-> NoRestore]

\* Calls of RestoreDatabase on one panel, whatever an earlier call left at
\* the backup path.
SpecRestore == InitRestore /\ [][Restore]_vars

\* The rate limiter alone, on the finer clock.
SpecLimiter == InitStore /\ [][Limiter]_vars

InitConfig ==
    /\ InitWith(0)
    /\ AgentInit([authType |-> "mtls", caFile |-> "cert", leaf |-> TRUE])
    /\ StoreInit
    /\ RemoteInit
    /\ MigrationIdle
    /\ env \in [maxConcurrency : EnvTexts, timeoutSec : EnvTexts]
    /\ healthCfg = Unloaded
    /\ LimiterInit
    /\ LogsIdle
    /\ ViewsIdle
    /\ RestoreIdle

\* The monitor constructed under any environment.
SpecConfig == InitConfig /\ [][NewServerHealthJob]_vars

\* The migration run at each start of the panel, any statement of it failing.
SpecMigration == InitMigration /\ [][Migration]_vars

\* ------------------------------------------------------------------ claims

\* Health checks holding a worker slot, over all invocations of Run.
TotalInFlight ==
    Cardinality({x \in Cycles \X Ids : task[x[1]][x[2]].pc \in Holding})

\* C1: the number of health checks in flight (slot acquired, not yet
\* released) never exceeds the worker-pool bound K, also when several
\* monitor cycles run concurrently.
C1_InFlightWithinPool == TotalInFlight <= MaxConcurrency

\* C2: DeleteServer(1) returns an error and leaves the node table unchanged;
\* the local node is never removed by a deletion attempt.
C2_LocalNeverDeleted ==
    /\ [](1 \in DOMAIN servers /\ 1 \notin delPending)
    /\ [][DeleteServerBegin(1) =>
            /\ servers' = servers
            /\ reply'.op = "DeleteServer" /\ reply'.id = 1 /\ reply'.err # ""]_vars

\* A deletion of node 1 was attempted and refused, in a fleet with other nodes.
C2_Witness ==
    /\ reply = Reply("DeleteServer", 1, "cannot delete local server")
    /\ DOMAIN servers # {1}

\* C3: after any sequence of AddServer, UpdateServer, DeleteServer and
\* monitor cycles, a node with id 1 exists and its enabled flag is true.
C3_LocalExistsEnabled == 1 \in DOMAIN servers /\ servers[1].enabled

\* C4: in every reachable registry state GetConnector(1) returns a Local
\* Executor.
C4_LocalConnector == GetConnector(servers, 1) = "local"

RecordsFailure(i) ==
    \E c \in Cycles : task[c][i].pc = "failRec" /\ task'[c][i].pc = "tally"

\* A successful check of node i does its resetFailure in this step.
ResetsFailure(i) ==
    \E c \in Cycles : task[c][i].pc = "okReset" /\ task'[c][i].pc = "okWrite"

\* C6: a node's failure counter grows by exactly 1 on each failed check,
\* becomes 0 on a successful one and is changed by nothing else; after n
\* failed checks since the last success it equals n, also when checks of
\* the node run concurrently.
C6_FailureCounter ==
    /\ [](\A i \in Ids : failures[i] = streak[i])
    /\ [][\A i \in Ids :
            /\ RecordsFailure(i) => failures'[i] = failures[i] + 1
            /\ ResetsFailure(i) => failures'[i] = 0
            /\ failures'[i] # failures[i] => RecordsFailure(i) \/ ResetsFailure(i)]_vars

\* Two overlapping cycles have each recorded a failed check of node 2.
C6_Witness ==
    /\ failures[2] = 2
    /\ task[1][2].pc = "tally"
    /\ task[2][2].pc = "tally"

\* C7: a monitor cycle never obtains an executor for node 1, never checks it
\* and never writes its row; when node 1 is the only enabled node the cycle
\* makes no call at all.
C7_LocalUntouched ==
    /\ [](\A c \in Cycles :
            /\ task[c][1].pc = "none"
            /\ cycle[c].pc = "returned" => \A i \in Ids : task[c][i].pc = "none")
    /\ [][servers'[1] # servers[1] => budget' # budget]_vars
    /\ [][\A c \in Cycles :
            (cycle[c].pc = "idle" /\ cycle'[c].pc # "idle"
                /\ GetEnabledServers(servers) = {1}) =>
                (cycle'[c].pc = "returned" /\ task' = task)]_vars

\* A cycle over the local node alone returned at once, and a later cycle
\* checked the remote nodes while node 1 was enabled.
C7_Witness ==
    /\ cycle[1].pc = "returned"
    /\ cycle[2].pc = "finished"
    /\ 1 \in GetEnabledServers(servers)
    /\ \E i \in Ids : task[2][i].pc = "done"

\* C8: after one monitor cycle that nothing overlaps, a node whose GetHealth
\* succeeded is online with an updated last-seen and an empty last-error, a
\* node whose GetHealth failed is offline with a last-error, a node whose
\* executor could not be constructed is in status error with a last-error.
C8_CycleResult ==
    (/\ cycle[1].pc = "finished"
     /\ \A d \in Cycles \ {1} : cycle[d].pc = "idle"
     /\ budget = cycle[1].budget0) =>
        \A i \in DOMAIN servers :
            /\ task[1][i].out = "ok" =>
                  /\ servers[i].status = "online"
                  /\ servers[i].lastSeen >= 1
                  /\ servers[i].lastError = ""
            /\ task[1][i].out = "healthErr" =>
                  servers[i].status = "offline" /\ servers[i].lastError # ""
            /\ task[1][i].out = "connErr" =>
                  servers[i].status = "error" /\ servers[i].lastError # ""

\* C9: every node's stored status is one of pending, online, offline, error.
C9_StatusDomain == \A i \in DOMAIN servers : servers[i].status \in Statuses

\* C10: in each monitor cycle every node that was enabled and remote at the
\* start of the cycle is health-checked exactly once, whatever the outcomes
\* of the checks of the other nodes.
C10_EveryNodeCheckedOnce ==
    /\ [](\A c \in Cycles, i \in Ids :
            /\ task[c][i].n <= 1
            /\ (cycle[c].pc = "finished" /\ task[c][i].pc # "none") =>
                  (task[c][i].pc = "done" /\ task[c][i].n = 1))
    /\ [][\A c \in Cycles :
            (cycle[c].pc = "idle" /\ cycle'[c].pc # "idle") =>
                \A i \in Ids :
                    (task'[c][i].pc = "queued") <=>
                        (i # 1 /\ i \in DOMAIN servers /\ servers[i].enabled)]_vars
    /\ [][\A c \in Cycles, i \in Ids :
            cycle[c].pc # "idle" =>
                ((task'[c][i].pc = "none") <=> (task[c][i].pc = "none"))]_vars

\* A cycle over two remote nodes finished with one check failed (no executor)
\* and the other successful.
C10_Witness ==
    /\ cycle[1].pc = "finished"
    /\ cycle[1].error = 1
    /\ cycle[1].online = 1

\* C11: AddServer of a node whose auth kind is mtls or jwt and whose auth
\* material is missing is rejected with an error, and the node is not stored.
C11_AddRejectsMissingAuthData ==
    [][\A id \in Ids, a \in {"mtls", "jwt"}, st \in InStatus :
            AddServer(id, a, st, "") =>
                /\ servers' = servers
                /\ reply'.op = "AddServer" /\ reply'.err # ""]_vars

\* C15: for every existing node GetConnector returns a Local Executor when
\* the auth kind is local and a Remote Executor when it is not and the stored
\* auth material is usable.
C15_ConnectorByAuthKind ==
    \A i \in DOMAIN servers :
        /\ servers[i].authType = "local" => GetConnector(servers, i) = "local"
        /\ (servers[i].authType # "local" /\ servers[i].authData = "pem") =>
                GetConnector(servers, i) = "remote"

\* C16: GetConnector hands out no executor for a node whose enabled flag is
\* false, and no monitor cycle starts a health check of a node that is
\* disabled when the cycle fetches the enabled nodes.
C16_DisabledSkipped ==
    /\ [](\A i \in DOMAIN servers :
            ~servers[i].enabled => GetConnector(servers, i) = "error")
    /\ [][\A c \in Cycles, i \in DOMAIN servers :
            (cycle[c].pc = "idle" /\ ~servers[i].enabled) =>
                task'[c][i].pc = "none"]_vars

RefillInterval == (TicksPerMinute + RateLimit - 1) \div RateLimit

\* C12: a request that arrives when its caller's bucket holds no token is
\* answered with the rate-limit error and reaches no route handler, whatever
\* the other callers' buckets hold; the same request repeated once the
\* refill interval has elapsed is admitted.
C12_RateLimited ==
    /\ [](resp.code = 429 =>
            resp.error = "RATE_LIMIT_EXCEEDED" /\ resp.handler = "")
    /\ [](resp.waited >= RefillInterval => resp.code # 429)
    /\ [][\A ip \in Callers :
            (resp' # resp /\ resp'.ip = ip) =>
                /\ (/\ buckets[ip].exists
                    /\ buckets[ip].tokens = 0
                    /\ agentNow - buckets[ip].lastRefill < RefillInterval) =>
                        resp'.code = 429
                /\ \A o \in Callers \ {ip} : buckets'[o] = buckets[o]]_vars

\* A caller that was rate-limited on a protected route repeated the request
\* after the refill interval and the route's handler ran, while the other
\* caller's bucket was empty.
C12_Witness ==
    /\ resp.waited >= RefillInterval
    /\ resp.ip = 1
    /\ resp.handler \in ProtectedRoutes
    /\ buckets[2].exists /\ buckets[2].tokens = 0

\* C13: the handler of a route other than /api/v1/health answers a request
\* only when the request passed the configured authentication check.
C13_OnlyHealthUnauthenticated ==
    (resp.handler # "" /\ resp.route # RouteHealth) =>
        IF agentCfg.authType = "mtls"
        THEN resp.cert = "configuredCA"
        ELSE resp.header = <<"Bearer ", JWTSecret>>

\* C14: a server configured for mtls gives no HTTP answer to a client that
\* offered no certificate or one of another authority, and serves the
\* protected routes to a client whose certificate the configured authority
\* signed.
C14_MutualTLS ==
    (agentCfg.authType = "mtls" /\ resp.route # "") =>
        /\ resp.cert \in {"none", "otherCA"} => resp.code = 0
        /\ (resp.cert = "configuredCA" /\ resp.route \in ProtectedRoutes
                /\ resp.code # 429) => resp.handler = resp.route

\* C17: an operation issued through the executor of node A returns no inbound
\* owned by another node B, and leaves every inbound owned by B in the table
\* with its owner, settings, clients and traffic as they were.
C17_NodeIsolation ==
    [][(connOut' # connOut \/ records' # records) =>
        \A r \in DOMAIN records :
            records[r].serverId # connOut'.via =>
                /\ r \notin connOut'.returned
                /\ r \in DOMAIN records'
                /\ records'[r] = records[r]]_vars

InlinedClient(k) == createMTLSClient(Inlined(k))

\* C20: a pasted bundle of the client certificate, the key and the CA
\* certificate, in any order of the blocks, gives the client (certificate,
\* key, CA roots) that the same material inlined gives.
C20_BundleAsInlined ==
    \A k \in KeyBlocks, o \in Orders :
        (rc.authType = "mtls" /\ rc.authData = Bundle(k, o)) =>
            /\ InlinedClient(k).err = ""
            /\ rc.err = InlinedClient(k).err
            /\ rc.cert = InlinedClient(k).cert
            /\ rc.key = InlinedClient(k).key
            /\ rc.roots = InlinedClient(k).roots

\* C22: the request of every contract operation of a remote connector meets
\* a route that the node's router registers.
C22_ContractRoutesRegistered ==
    sent.op # "" => sent.route # NoRoute

\* C23: a monitor cycle that has spawned its health checks passes its
\* barrier: every task gets a worker slot and gives it back, and the cycle
\* finishes with no slot of its pool taken.
C23_CycleTerminates ==
    /\ \A c \in Cycles : (cycle[c].pc = "running") ~> (cycle[c].pc = "finished")
    /\ \A c \in Cycles :
          [](cycle[c].pc = "finished" =>
                InFlight(c) = 0 /\ \A i \in Ids : task[c][i].pc \in {"none", "done"})

\* A cycle over more nodes than the pool has slots has finished.
C23_Witness ==
    /\ cycle[1].pc = "finished"
    /\ Cardinality({i \in Ids : task[1][i].pc = "done"}) > MaxConcurrency

\* The nodes an invocation of Run checks.
Checked(c) == {i \in Ids : task[c][i].pc # "none"}

\* C24: a cycle's summary is produced only when every health-check task of
\* the cycle has finished, and its online, offline and error counts add up
\* to the number of nodes the cycle checked.
C24_SummaryAfterTasks ==
    /\ [](\A c \in Cycles :
            cycle[c].pc = "finished" =>
                /\ \A i \in Checked(c) : task[c][i].pc = "done"
                /\ cycle[c].online + cycle[c].offline + cycle[c].error
                      = Cardinality(Checked(c)))
    /\ [][\A c \in Cycles :
            (cycle[c].pc # "finished" /\ cycle'[c].pc = "finished") =>
                \A i \in Checked(c) : task[c][i].pc = "done"]_vars

\* A cycle has finished with one node online and one in error.
C24_Witness ==
    /\ cycle[1].pc = "finished"
    /\ cycle[1].online = 1
    /\ cycle[1].error = 1

\* C25: the status write of a failed health check (offline or error) leaves
\* the node's last-seen timestamp as it was.
C25_FailureKeepsLastSeen ==
    [][\A c \in Cycles, i \in DOMAIN servers :
          (task[c][i].pc = "failWrite" /\ task'[c][i].pc = "failRec") =>
              servers'[i].lastSeen = servers[i].lastSeen]_vars

\* A number clamped to the range lo..hi.
Clamp(n, lo, hi) == IF n < lo THEN lo ELSE IF n > hi THEN hi ELSE n

\* C26: the pool size of a constructed monitor is the number in
\* HEALTH_MAX_CONCURRENCY clamped to 1..100, and the default 10 when the
\* variable is unset or not a number.
C26_PoolSizeClamped ==
    healthCfg # Unloaded =>
        healthCfg.maxConcurrency =
            IF env.maxConcurrency = <<>> \/ ~Atoi(env.maxConcurrency).ok
            THEN DefaultMaxConcurrency
            ELSE Clamp(Atoi(env.maxConcurrency).n, 1, HardMaxConcurrency)

\* C27: a request of one caller, admitted or rejected, changes the bucket
\* (tokens, refill time) of no other caller; and a caller's request is
\* rejected only when that caller's own bucket is empty and has nothing to
\* gain yet, whatever the buckets of the others hold.
C27_BucketsIndependent ==
    [][\A a \in Callers :
          /\ ((resp' # resp /\ resp'.ip = a) \/
              (buckets'[a] # buckets[a] /\ buckets'[a].exists)) =>
                \A b \in Callers \ {a} : buckets'[b] = buckets[b]
          /\ (resp' # resp /\ resp'.ip = a /\ resp'.code = 429) =>
                /\ buckets[a].exists
                /\ buckets[a].tokens = 0
                /\ tokensToAdd(agentNow - buckets[a].lastRefill) = 0]_vars

\* Caller 2 was admitted while the bucket of caller 1 was exhausted and had
\* no refill due.
C27_Witness ==
    /\ resp.ip = 2
    /\ resp.code = 200
    /\ buckets[1].exists
    /\ buckets[1].tokens = 0
    /\ agentNow - buckets[1].lastRefill < RefillInterval
    /\ buckets[2].lastRefill >= buckets[1].lastRefill

\* C28: for every caller, the requests the rate limiter admitted within
\* less than a minute are no more than the configured requests per minute.
C28_AdmittedPerMinute ==
    \A k \in Callers : Len(lim.admitted[k]) <= FineRateLimit

\* A path lies inside a directory: it is the directory, or the directory
\* and a separator begin it.
Inside(path, dir) == path = dir \/ HasPrefix(path, dir \o <<"/">>)

InsideAllowed(path) ==
    \E k \in DOMAIN AllowedPaths : Inside(path, Clean(AllowedPaths[k]))

\* C29: the log endpoint reads a file only when the cleaned log path lies
\* inside an allow-listed directory; for any other path, a sibling of an
\* allow-listed directory included, it reads nothing and answers with the
\* generic log-read error.
C29_LogPathAllowListed ==
    logResp.code # 0 =>
        /\ logResp.read # <<>> => InsideAllowed(LogFile(logEnv))
        /\ ~InsideAllowed(LogFile(logEnv)) =>
              /\ logResp.read = <<>>
              /\ logResp.code = 500
              /\ logResp.error = "LOG_READ_ERROR"
              /\ logResp.message = "Unable to read logs"

\* C30: whatever the count parameter (absent, not a number, zero, negative,
\* large), the log endpoint uses a line count between 1 and 1000 and returns
\* no more lines than that, read by tail or read directly.
C30_LogCountCapped ==
    logResp.code # 0 =>
        /\ logResp.count >= 1
        /\ logResp.count <= MaxLogCount
        /\ logResp.lines <= logResp.count

\* A count above the cap was asked of a file of more lines than the cap,
\* read directly: the cap's number of lines came back.
C30_Witness ==
    /\ logResp.code = 200
    /\ Atoi(logResp.query).ok /\ Atoi(logResp.query).n > MaxLogCount
    /\ logFs.kind = "direct"
    /\ logFs.lines > MaxLogCount
    /\ logResp.lines = MaxLogCount

\* All the PEM blocks of the auth material: inlined, in the files named,
\* pasted.
Material(ad) ==
    ad.certPem \o ad.keyPem \o ad.caPem \o ad.blocks
      \o (IF ad.certFile # "" THEN ReadFile(ad.certFile).blocks ELSE <<>>)
      \o (IF ad.keyFile # "" THEN ReadFile(ad.keyFile).blocks ELSE <<>>)
      \o (IF ad.caFile # "" THEN ReadFile(ad.caFile).blocks ELSE <<>>)

Holds(blocks, body) == \E i \in DOMAIN blocks : blocks[i].body = body

\* C31: a connector for a mutual-TLS node that was returned holds a client
\* certificate with its key and a CA pool; when the auth material (inlined,
\* files, pasted bundle) holds no client certificate, no key or no CA
\* certificate, construction fails.
C31_MTLSFailsAtConstruction ==
    rc.authType = "mtls" =>
        /\ rc.err = "" => (rc.cert # "" /\ rc.key # "" /\ rc.roots # {})
        /\ (\/ ~Holds(Material(rc.authData), "clientCert")
            \/ ~Holds(Material(rc.authData), "clientKey")
            \/ ~Holds(Material(rc.authData), "caCert")) => rc.err # ""

\* Construction failed for file paths whose CA file is missing, and
\* succeeded for file paths that name all three files.
C31_Witness ==
    /\ rc.authType = "mtls"
    /\ rc.authData = FileAuthData("cert.pem", "key.pem", "ca.pem")
    /\ rc.err = ""
    /\ rc.roots = {"caCert"}
    /\ createMTLSClient(FileAuthData("cert.pem", "key.pem", "absent.pem")).err
          = "failed to load CA certificate"

\* C32: every bucket of the rate limiter holds between 0 and the configured
\* limit tokens, whatever limit the configuration gave, zero and negative
\* limits included.
C32_TokensWithinLimit ==
    \A k \in Callers :
        lim.buckets[k].exists =>
            (lim.buckets[k].tokens >= 0 /\ lim.buckets[k].tokens <= lim.limit)

\* The invocations that checked node i.
CheckedBy(i) == {c \in Cycles : task[c][i].pc # "none"}

\* Of the checks of node i, the one that started last.
LastStarted(i) ==
    CHOOSE c \in CheckedBy(i) : \A d \in CheckedBy(i) : task[d][i].rank <= task[c][i].rank

\* C33: once every cycle that checked a node has finished, the node's
\* stored status is the one the check that started last came to, and its
\* failure counter is 0 exactly when that check succeeded.
C33_LastCheckWins ==
    \A i \in DOMAIN servers :
        (CheckedBy(i) # {} /\ \A c \in CheckedBy(i) : cycle[c].pc = "finished") =>
            /\ servers[i].status = task[LastStarted(i)][i].res
            /\ (failures[i] = 0) <=> (task[LastStarted(i)][i].out = "ok")

\* C34: however DeleteServer of a node and AddInbound through the node's
\* executor interleave, every inbound record names a node of the registry.
C34_NoOrphanInbound ==
    \A i \in Ids : inbounds[i] > 0 => i \in DOMAIN servers

\* A checkServer of node i is between its first and its last statement.
CheckInProgress(i) ==
    \E c \in Cycles : task[c][i].pc \notin {"none", "queued", "acquired", "tally", "done"}

\* C35: while no check of a node is in progress, the node's failure counter
\* is above 0 exactly when the status the monitor last wrote for it is
\* offline or error.
C35_CounterMatchesStatus ==
    \A i \in DOMAIN servers :
        ((\E c \in Cycles : task[c][i].n > 0) /\ ~CheckInProgress(i)) =>
            ((failures[i] > 0) <=> (servers[i].status \in {"offline", "error"}))

\* C36: in the aggregated status, totalServers is the number of nodes of
\* the registry, and onlineServers and offlineServers add up to it.
C36_AggregatedCounts ==
    agg.pc = "done" =>
        /\ agg.total = Cardinality(DOMAIN servers)
        /\ agg.online + agg.offline = agg.total

\* C37: an id GetDefaultServerId returns without an error is the id of an
\* enabled node of the registry.
C37_DefaultIsEnabled ==
    (view.op = "GetDefaultServerId" /\ view.err = "") =>
        (view.id \in DOMAIN servers /\ servers[view.id].enabled)

\* C39: ListServers answers every page and limit value without a runtime
\* fault, with a window of at most 100 of the filtered servers.
C39_WindowInRange ==
    view.op = "ListServers" =>
        /\ ~view.fault
        /\ Len(view.window) <= MaxPageLimit
        /\ \A k \in DOMAIN view.window : view.window[k] \in DOMAIN servers

\* C40: a call of RestoreDatabase that returned an error did not replace
\* the live database file, and the live file is the one in use before any
\* restore or a backup that passes validation.
C40_RestoreKeepsLive ==
    /\ \A r \in Restorers : restore[r].pc = "failed" => ~restore[r].replaced
    /\ live # "db0" => ValidateSQLiteDB(live) = ""

\* C38: under every limit of at least 1, the rate limiter admits a request
\* exactly when a limiter that serves the same requests and never removes a
\* bucket admits it.
C38_CleanupKeepsDecisions ==
    lim.limit >= 1 => (lim.last.ok = lim.last.kept)

\* A request of a caller whose bucket cleanup had removed was served, and
\* both limiters hold the same bucket for the caller after it.
C38_Witness ==
    /\ lim.limit >= 1
    /\ lim.last.fresh
    /\ lim.last.ok
    /\ \E k \in Callers : lim.buckets[k].exists /\ lim.buckets[k] = lim.kept[k]
                           /\ lim.buckets[k].lastRefill = lim.now

\* The database one run without a failure leaves, from database db.
MigratedOnce(db) ==
    [history |-> 1, servers |-> {1}, seeded |-> 1, indexes |-> TableIdx,
     tables |-> [i \in TableIdx |->
                    TableState(TRUE, 0, db.tables[i].null + db.tables[i].one)]]

====
